---- MODULE Spec2Model ----
(***************************************************************************)
(* Model of the per-container log pipeline of docker-journald-plus:         *)
(* the supervisor handlers and the processing task consumeLog (driver.go),  *)
(* the partial reassembler (partialAssembler) and the multiline merger      *)
(* (multilineMerger) with its flush timer.                                  *)
(*                                                                          *)
(* Bytes are modelled as one-character strings, a line as a sequence of     *)
(* bytes.  History variables (fed, sent, bufIdx, arrived, produced) record  *)
(* what went in and what came out; they are never read by the actions that  *)
(* model code.                                                              *)
(***************************************************************************)
EXTENDS Integers, Sequences, FiniteSets, TLC

VARIABLES
    registered,   \* d.consumers holds an entry for the stream path
    cfg,          \* lc.cfg: [enabled |-> MultilineRegex # nil]
    ctxDone,      \* the pipeline's context has been cancelled (lc.cancel())
    fclosed,      \* the cancel watcher has closed the producer stream
    done,         \* lc.done has been closed
    pc,           \* position of the processing task (consumeLog)
    cur,          \* the line consumeLog is handing to AddLine
    nread,        \* number of records decoded so far
    groups,       \* partialAssembler.groups
    merger,       \* multilineMerger fields: buf, lineCount, source, timeNano, timer, hasData
    mu,           \* holder of multilineMerger.mu: "free", "task" or "timer"
    pendingCb,    \* timer callbacks that have fired and not yet taken mu
    sending,      \* the message inside m.output (the journal send), or NoMsg
    spc,          \* position of each EndStream (handleStopLogging) call
    sfound,       \* per EndStream call: did the lookup find the entry
    fed,          \* history: the lines passed to AddLine, in order
    sent,         \* history: the messages handed to the journal sink, in order
    bufIdx,       \* history: indices in fed of the lines now in merger.buf
    arrived,      \* history: the records passed to partialAssembler.Add
    produced,     \* history: the ReassembledLines of partial groups
    now,          \* the clock read by time.Now(), in seconds
    lastErrLog,   \* logConsumer.lastErrLog
    suppressedErrs, \* logConsumer.suppressedErrs
    reports,      \* history: the logError calls and what each printed
    failed,       \* history: positions in sent of the sends that returned an error
    answers,      \* history: the Err strings of the replies to StartLogging
    opened,       \* the producer stream (FIFO) has been opened
    detected,     \* the last DetectPriority call: its arguments and results
    written,      \* the calls of the journal send function, oldest first
    consumers,    \* d.consumers: per stream path the consumer registered, 0 if none
    tasks,        \* the consumeLog tasks started so far, by consumer number
    stopping,     \* the consumers held by StopLogging calls that have not returned
    dmu,          \* the handler call that holds Driver.mu, if any
    probe         \* the last call of a function examined on its own: arguments, result

vars == <<registered, cfg, ctxDone, fclosed, done, pc, cur, nread, groups, merger,
          mu, pendingCb, sending, spc, sfound, fed, sent, bufIdx, arrived, produced,
          now, lastErrLog, suppressedErrs, reports, failed,
          answers, opened, detected, written, consumers, tasks, stopping, dmu, probe>>

mergVars == <<merger, mu, pendingCb, sending, sent, bufIdx>>
partVars == <<groups, arrived, produced>>
repVars  == <<now, lastErrLog, suppressedErrs, reports>>
supVars  == <<consumers, tasks, stopping, dmu>>
extVars  == <<answers, opened, detected, written, consumers, tasks, stopping, dmu, probe>>

----------------------------------------------------------------------------
(* Bounds of the model *)

MaxRecords == 3       \* records decoded by one pipeline
MultilineMaxLines == 2   \* cfg.MultilineMaxLines chosen for the model
MultilineMaxBytes == 5   \* cfg.MultilineMaxBytes chosen for the model
MaxAdds == 4          \* Add calls in the reassembler specification
MaxRequests == 2      \* StartLogging requests in the options specification
MaxLineLen == 4       \* bytes of a first line given to DetectPriority
MaxNameLen == 3           \* runes of a name given to sanitizeFieldName on its own
MaxStarts == 3            \* StartLogging requests in the supervisor's own specification
MaxReports == 4           \* calls of logError in the reporter's own specification
MaxValueLen == 4          \* bytes of the value of a list option given to ParseConfig
MaxJSONLen == 4           \* bytes of a body given to ParseJSONLog on its own
MaxWrites == 2            \* calls of the merger's callback in the callback's own specification
MaxDecodes == 2           \* calls of decode on one decoder in the decoder's own specification
MaxFrameFields == 2       \* fields of one frame given to decode
MaxTime == 125            \* seconds the clock runs in the reporter's own specification

----------------------------------------------------------------------------
(* Data *)

SP == " "
X  == "x"
MultilineSep == <<"\n">>

NoMsg  == [none |-> TRUE]
NoLine == [none |-> TRUE]
NoMeta == [none |-> TRUE]

\* Driver.mu with no holder
Unlocked == [kind |-> "free", path |-> ""]

\* the EndStream calls issued for the path, possibly concurrently
\* the stream paths (req.File) of the supervisor's own specification
Paths == {"p", "q"}

Stoppers == {"stopA", "stopB"}

RECURSIVE Flatten(_)
Flatten(ss) == IF ss = <<>> THEN <<>> ELSE Head(ss) \o Flatten(Tail(ss))

\* lines[1] sep lines[2] sep ... lines[n]
RECURSIVE Join(_, _)
Join(lines, sep) ==
    IF lines = <<>> THEN <<>>
    ELSE IF Len(lines) = 1 THEN lines[1]
    ELSE lines[1] \o sep \o Join(Tail(lines), sep)

----------------------------------------------------------------------------
(* Partial reassembler: partialAssembler.Add *)

Sources == {"stdout", "stderr"}

LastOf(s)  == s[Len(s)]
FrontOf(s) == SubSeq(s, 1, Len(s) - 1)

\* sort.Slice with less(i, j) = parts[i].ordinal < parts[j].ordinal.  For the
\* short slices of the model Go sorts by insertion: an element moves left
\* while it is less than its predecessor.
RECURSIVE InsertPart(_, _)
InsertPart(sorted, p) ==
    IF sorted = <<>> THEN <<p>>
    ELSE IF p.ordinal < LastOf(sorted).ordinal
         THEN Append(InsertPart(FrontOf(sorted), p), LastOf(sorted))
         ELSE Append(sorted, p)

RECURSIVE SortPartsInsertion(_)
SortPartsInsertion(parts) ==
    IF parts = <<>> THEN <<>>
    ELSE InsertPart(SortPartsInsertion(FrontOf(parts)), LastOf(parts))

\* faulty variant: the parts are left in arrival order
SortPartsUnsorted(parts) == parts

SortParts(parts) == SortPartsInsertion(parts)

Assemble(parts) == Flatten([i \in 1..Len(parts) |-> parts[i].data])

\* faulty variant: the group is restamped by every fragment
NewGroupFromLatest(g, entry) ==
    [source |-> entry.Source, timeNano |-> entry.TimeNano,
     parts |-> IF entry.PartialLogMetadata.ID \in DOMAIN g
               THEN g[entry.PartialLogMetadata.ID].parts ELSE <<>>]

\* pa.groups[id], created from the entry when the id has no group yet
GroupFor(g, entry) ==
    IF entry.PartialLogMetadata.ID \in DOMAIN g
    THEN g[entry.PartialLogMetadata.ID]
    ELSE [source |-> entry.Source, timeNano |-> entry.TimeNano, parts |-> <<>>]

\* faulty variant: a complete record discards the pending groups
AsIsClearsTable(g, entry) ==
    [groups |-> <<>>, line |-> entry.Line, source |-> entry.Source,
     timeNano |-> entry.TimeNano, complete |-> TRUE]

\* "Non-partial message: return as-is"
AsIs(g, entry) ==
    [groups |-> g, line |-> entry.Line, source |-> entry.Source,
     timeNano |-> entry.TimeNano, complete |-> TRUE]

\* faulty variant: the group stays in the table after its last fragment
AddKeepsGroup(g, entry) ==
    IF ~entry.Partial THEN AsIs(g, entry)
    ELSE IF entry.PartialLogMetadata = NoMeta THEN AsIs(g, entry)
    ELSE
      LET meta == entry.PartialLogMetadata
          id   == meta.ID
          grp0 == GroupFor(g, entry)
          grp  == [grp0 EXCEPT !.parts =
                       Append(@, [ordinal |-> meta.Ordinal, data |-> entry.Line])]
          g1   == [i \in DOMAIN g \cup {id} |-> IF i = id THEN grp ELSE g[i]]
      IN IF ~meta.Last
         THEN [groups |-> g1, line |-> <<>>, source |-> "", timeNano |-> 0,
               complete |-> FALSE]
         ELSE [groups |-> g1,
               line |-> Assemble(SortParts(grp.parts)),
               source |-> grp.source, timeNano |-> grp.timeNano,
               complete |-> TRUE]

\* The result of Add and the table it leaves behind.
Add(g, entry) ==
    IF ~entry.Partial THEN AsIs(g, entry)
    ELSE IF entry.PartialLogMetadata = NoMeta THEN AsIs(g, entry)
    ELSE
      LET meta == entry.PartialLogMetadata
          id   == meta.ID
          grp0 == GroupFor(g, entry)
          grp  == [grp0 EXCEPT !.parts =
                       Append(@, [ordinal |-> meta.Ordinal, data |-> entry.Line])]
          g1   == [i \in DOMAIN g \cup {id} |-> IF i = id THEN grp ELSE g[i]]
      IN IF ~meta.Last
         THEN [groups |-> g1, line |-> <<>>, source |-> "", timeNano |-> 0,
               complete |-> FALSE]
         ELSE [groups |-> [i \in DOMAIN g1 \ {id} |-> g1[i]],
               line |-> Assemble(SortParts(grp.parts)),
               source |-> grp.source, timeNano |-> grp.timeNano,
               complete |-> TRUE]

----------------------------------------------------------------------------
(* Multiline merger: state changes made under multilineMerger.mu *)

NewMerger ==
    [buf |-> <<>>, lineCount |-> 0, source |-> "", timeNano |-> 0,
     timer |-> "nil", hasData |-> FALSE]

\* faulty variant: the nil check is missing
MultilineDisabledNever(c) == FALSE

\* m.cfg.MultilineRegex == nil
MultilineDisabled(c) == ~c.enabled

\* cfg.MultilineRegex.Match(line) for the default regex ^\s
IsContinuation(line) == Len(line) > 0 /\ line[1] = SP

\* faulty variant: >= in place of > on the byte cap
LimitReachedBytesInclusive(m, line) ==
    \/ m.lineCount >= MultilineMaxLines
    \/ Len(m.buf) + Len(MultilineSep) + Len(line) >= MultilineMaxBytes

\* the cap check made before a continuation is appended
LimitReached(m, line) ==
    \/ m.lineCount >= MultilineMaxLines
    \/ Len(m.buf) + Len(MultilineSep) + Len(line) > MultilineMaxBytes

\* faulty variant: the old timer is stopped and none is armed
ResetTimerNever(m) == [m EXCEPT !.timer = "nil"]

\* resetTimerLocked: stop the old timer (a callback that already fired is not
\* recalled) and arm a new one
ResetTimerLocked(m) == [m EXCEPT !.timer = "armed"]

\* "start new buffer": the seed of a new message
StartBuffer(m, line, source, timeNano) ==
    ResetTimerLocked([m EXCEPT !.buf = @ \o line, !.lineCount = 1,
                               !.source = source, !.timeNano = timeNano,
                               !.hasData = TRUE])

\* faulty variant: a continuation overwrites the stamp of the first line
AppendContinuationRestamp(m, line, source, timeNano) ==
    ResetTimerLocked([m EXCEPT !.buf = @ \o MultilineSep \o line,
                               !.lineCount = @ + 1,
                               !.source = source, !.timeNano = timeNano])

\* faulty variant: the separator is not written
AppendContinuationNoSep(m, line, source, timeNano) ==
    ResetTimerLocked([m EXCEPT !.buf = @ \o line, !.lineCount = @ + 1])

\* "append continuation"
AppendContinuation(m, line, source, timeNano) ==
    ResetTimerLocked([m EXCEPT !.buf = @ \o MultilineSep \o line,
                               !.lineCount = @ + 1])

\* flushLocked, the message it builds
FlushMsg(m) == [Line |-> m.buf, Source |-> m.source, TimeNano |-> m.timeNano]

\* faulty variant: the line count survives the flush
FlushResetKeepsCount(m) ==
    [m EXCEPT !.timer = "nil", !.buf = <<>>, !.hasData = FALSE]

\* flushLocked, the state it leaves (timer stopped and forgotten, buffer reset)
FlushReset(m) ==
    [m EXCEPT !.timer = "nil", !.buf = <<>>, !.lineCount = 0, !.hasData = FALSE]

\* AddLine with multiline disabled: the message passed straight to output
PassThroughMsg(line, source, timeNano) ==
    [Line |-> line, Source |-> source, TimeNano |-> timeNano]

----------------------------------------------------------------------------
(* Rate-limited error reporter: logConsumer.logError *)

Minute == 60             \* time.Minute, in seconds

\* the zero time.Time that lastErrLog holds until the first message is printed
ZeroTime == [zero |-> TRUE, sec |-> 0]

\* the time.Time that time.Now() returns at second t
TimeAt(t) == [zero |-> FALSE, sec |-> t]

\* faulty variant: the window closes a second early
WindowOverEarly(t, last) == last.zero \/ t - last.sec >= Minute - 1

\* now.Sub(lc.lastErrLog) >= time.Minute; Sub saturates at the largest
\* Duration (some 292 years), which is what it gives for the zero time
WindowOver(t, last) == last.zero \/ t - last.sec >= Minute

\* faulty variant: the counter is not reset when the summary is printed
LogErrorKeepsCount(last, supp, t, kind) ==
    IF WindowOver(t, last)
    THEN [lastErrLog |-> TimeAt(t), suppressedErrs |-> supp,
          report |-> [kind |-> kind, at |-> t, printed |-> TRUE, summary |-> supp]]
    ELSE [lastErrLog |-> last, suppressedErrs |-> supp + 1,
          report |-> [kind |-> kind, at |-> t, printed |-> FALSE, summary |-> 0]]

\* logError called at time t: the fields it leaves and what it printed (the
\* message, and before it the count of suppressed errors when that is not 0)
LogError(last, supp, t, kind) ==
    IF WindowOver(t, last)
    THEN [lastErrLog |-> TimeAt(t), suppressedErrs |-> 0,
          report |-> [kind |-> kind, at |-> t, printed |-> TRUE, summary |-> supp]]
    ELSE [lastErrLog |-> last, suppressedErrs |-> supp + 1,
          report |-> [kind |-> kind, at |-> t, printed |-> FALSE, summary |-> 0]]

----------------------------------------------------------------------------
(* Log options: ParseConfig and renderTag *)

knownOpts ==
    {"tag", "labels", "labels-regex", "env", "env-regex",
     "multiline-regex", "multiline-timeout", "multiline-max-lines",
     "multiline-max-bytes", "multiline-separator",
     "priority-prefix", "priority-default-stdout", "priority-default-stderr",
     "priority-match-emerg", "priority-match-alert", "priority-match-crit",
     "priority-match-err", "priority-match-warning", "priority-match-notice",
     "priority-match-info", "priority-match-debug",
     "strip-timestamp", "strip-timestamp-regex",
     "parse-json", "json-level-keys", "json-message-keys"}

\* the keys of the model for which strings.HasPrefix(key, "field-") holds,
\* and strings.TrimPrefix(key, "field-") for them
FieldKeys == {"field-X", "field-"}
HasFieldPrefix(k) == k \in FieldKeys
FieldName(k) == IF k = "field-" THEN "" ELSE "X"

\* opts[k], the empty string when the key is absent
Opt(opts, k) == IF k \in DOMAIN opts THEN opts[k] ELSE ""

\* The library parsers, as they act on the values of the model.
\* regexp.Compile: "[" is a missing closing bracket, every other value compiles
RegexCompiles(v) == v # "["
\* Regexp.NumSubexp
NumSubexp(v) == IF v = "a(b)" THEN 1 ELSE 0
\* time.ParseDuration, in milliseconds
ParseDuration(v) ==
    CASE v = "10ms" -> [ok |-> TRUE, d |-> 10]
      [] v = "-5ms" -> [ok |-> TRUE, d |-> 0 - 5]
      [] v = "0"    -> [ok |-> TRUE, d |-> 0]
      [] OTHER      -> [ok |-> FALSE, d |-> 0]
\* strconv.Atoi
Atoi(v) ==
    CASE v = "2"  -> [ok |-> TRUE, n |-> 2]
      [] v = "0"  -> [ok |-> TRUE, n |-> 0]
      [] v = "-1" -> [ok |-> TRUE, n |-> 0 - 1]
      [] OTHER    -> [ok |-> FALSE, n |-> 0]
\* strconv.ParseBool
ParseBool(v) ==
    IF v \in {"1", "t", "T", "TRUE", "true", "True"} THEN [ok |-> TRUE, b |-> TRUE]
    ELSE IF v \in {"0", "f", "F", "FALSE", "false", "False"} THEN [ok |-> TRUE, b |-> FALSE]
    ELSE [ok |-> FALSE, b |-> FALSE]
\* strings.ToLower
ToLower(v) == IF v = "INFO" THEN "info" ELSE IF v = "PANIC" THEN "panic" ELSE v

priorityNames ==
    {"emerg", "alert", "crit", "err", "warning", "notice", "info", "debug"}

\* parsePriorityName succeeds
PriorityNameKnown(v) == ToLower(v) \in priorityNames

\* matchKeys: option and default pattern, emerg to debug
matchKeys ==
    << [opt |-> "priority-match-emerg",   defaultPat |-> ""],
       [opt |-> "priority-match-alert",   defaultPat |-> ""],
       [opt |-> "priority-match-crit",    defaultPat |-> "^.{0,30}(CRITICAL|\\[Critical\\])"],
       [opt |-> "priority-match-err",     defaultPat |-> "^.{0,30}(ERROR|FATAL|\\[ERROR\\]|\\[Fatal\\])"],
       [opt |-> "priority-match-warning", defaultPat |-> "^.{0,30}(WARN|WARNING|\\[Warning\\])"],
       [opt |-> "priority-match-notice",  defaultPat |-> "^.{0,30}\\[Note\\]"],
       [opt |-> "priority-match-info",    defaultPat |-> ""],
       [opt |-> "priority-match-debug",   defaultPat |-> "^.{0,30}(DEBUG|\\[Debug\\])"] >>

\* the pattern the matcher loop compiles for matchKeys[i]
MatchPattern(opts, i) ==
    IF matchKeys[i].opt \in DOMAIN opts THEN opts[matchKeys[i].opt]
    ELSE matchKeys[i].defaultPat

\* the matchers on which the loop fails
BadMatchers(opts) ==
    {i \in 1..Len(matchKeys) :
        MatchPattern(opts, i) # "" /\ ~RegexCompiles(MatchPattern(opts, i))}

\* cfg.StripTimestamp once "strip-timestamp" has been parsed
StripTimestampOn(opts) ==
    "strip-timestamp" \in DOMAIN opts /\ ParseBool(opts["strip-timestamp"]).b

\* the errors the field extractor loop can return for one key
FieldError(k, pattern) ==
    IF FieldName(k) = "" THEN "invalid field extractor key: field name cannot be empty"
    ELSE IF pattern = "" THEN "invalid field extractor: pattern cannot be empty"
    ELSE IF ~RegexCompiles(pattern) THEN "invalid field extractor pattern"
    ELSE IF NumSubexp(pattern) = 0
         THEN "invalid field extractor pattern: must contain at least one capture group"
    ELSE ""

\* The field extractor loop ranges over the map in an order Go leaves open:
\* it returns the error of whichever bad key it meets first.
FieldErrors(opts) ==
    {FieldError(k, opts[k]) : k \in {f \in DOMAIN opts : HasFieldPrefix(f)}} \ {""}

\* ParseConfig: the errors it can return for opts; none when it returns a Config
ParseConfigErrs(opts) ==
    IF \E k \in DOMAIN opts : k \notin knownOpts /\ ~HasFieldPrefix(k)
    THEN {"unknown log-opt"}
    ELSE IF Opt(opts, "labels-regex") # "" /\ ~RegexCompiles(opts["labels-regex"])
    THEN {"invalid labels-regex"}
    ELSE IF Opt(opts, "env-regex") # "" /\ ~RegexCompiles(opts["env-regex"])
    THEN {"invalid env-regex"}
    ELSE IF Opt(opts, "multiline-regex") # "" /\ ~RegexCompiles(opts["multiline-regex"])
    THEN {"invalid multiline-regex"}
    ELSE IF "multiline-timeout" \in DOMAIN opts
            /\ ~ParseDuration(opts["multiline-timeout"]).ok
    THEN {"invalid multiline-timeout"}
    ELSE IF "multiline-timeout" \in DOMAIN opts
            /\ ParseDuration(opts["multiline-timeout"]).d <= 0
    THEN {"multiline-timeout must be positive"}
    ELSE IF "multiline-max-lines" \in DOMAIN opts
            /\ (~Atoi(opts["multiline-max-lines"]).ok
                \/ Atoi(opts["multiline-max-lines"]).n <= 0)
    THEN {"invalid multiline-max-lines: must be a positive integer"}
    ELSE IF "multiline-max-bytes" \in DOMAIN opts
            /\ (~Atoi(opts["multiline-max-bytes"]).ok
                \/ Atoi(opts["multiline-max-bytes"]).n <= 0)
    THEN {"invalid multiline-max-bytes: must be a positive integer"}
    ELSE IF "priority-prefix" \in DOMAIN opts /\ ~ParseBool(opts["priority-prefix"]).ok
    THEN {"invalid priority-prefix: must be true or false"}
    ELSE IF "priority-default-stdout" \in DOMAIN opts
            /\ ~PriorityNameKnown(opts["priority-default-stdout"])
    THEN {"invalid priority-default-stdout"}
    ELSE IF "priority-default-stderr" \in DOMAIN opts
            /\ ~PriorityNameKnown(opts["priority-default-stderr"])
    THEN {"invalid priority-default-stderr"}
    ELSE IF BadMatchers(opts) # {}
    THEN {"invalid priority-match pattern"}
    ELSE IF "strip-timestamp" \in DOMAIN opts /\ ~ParseBool(opts["strip-timestamp"]).ok
    THEN {"invalid strip-timestamp: must be true or false"}
    ELSE IF StripTimestampOn(opts) /\ Opt(opts, "strip-timestamp-regex") # ""
            /\ ~RegexCompiles(opts["strip-timestamp-regex"])
    THEN {"invalid strip-timestamp-regex"}
    ELSE IF "parse-json" \in DOMAIN opts /\ ~ParseBool(opts["parse-json"]).ok
    THEN {"invalid parse-json: must be true or false"}
    ELSE FieldErrors(opts)

\* cfg.MultilineRegex != nil in the Config that ParseConfig returns
MultilineEnabled(opts) ==
    ~("multiline-regex" \in DOMAIN opts /\ opts["multiline-regex"] = "")

\* renderTag on the tag option: the empty tag is the default template, a tag
\* without "{{" is a literal, "{{" does not parse and "{{.Nope}}" names a
\* field tagData does not have, so it parses and fails when executed
RenderTagErr(tag) ==
    IF tag = "{{" THEN "rendering tag template: invalid tag template"
    ELSE IF tag = "{{.Nope}}" THEN "rendering tag template: executing tag template"
    ELSE ""

NoOpts == [k \in {} |-> ""]
OneOpt(k, v) == [x \in {k} |-> v]
TwoOpts(k1, v1, k2, v2) == [x \in {k1, k2} |-> IF x = k1 THEN v1 ELSE v2]

\* the option maps of the requests
OptionMaps ==
    {NoOpts}
    \cup {OneOpt("bogus", "value"), OneOpt("tag", "app"), OneOpt("tag", "{{.Name}}"),
          OneOpt("tag", "{{"), OneOpt("tag", "{{.Nope}}")}
    \cup {OneOpt(k, v) : k \in {"labels-regex", "env-regex", "multiline-regex",
                                "priority-match-err", "priority-match-info",
                                "strip-timestamp-regex"},
                         v \in {"[", "", "^\\s"}}
    \cup {OneOpt("multiline-timeout", v) : v \in {"10ms", "-5ms", "0", "notaduration"}}
    \cup {OneOpt(k, v) : k \in {"multiline-max-lines", "multiline-max-bytes"},
                         v \in {"2", "0", "-1", "abc"}}
    \cup {OneOpt(k, v) : k \in {"priority-prefix", "strip-timestamp", "parse-json"},
                         v \in {"true", "0", "maybe"}}
    \cup {OneOpt(k, v) : k \in {"priority-default-stdout", "priority-default-stderr"},
                         v \in {"INFO", "err", "critical"}}
    \cup {OneOpt(k, v) : k \in FieldKeys, v \in {"a(b)", "ab", "[", ""}}
    \cup {TwoOpts("strip-timestamp", b, "strip-timestamp-regex", v) :
              b \in {"true", "false"}, v \in {"[", "^\\s"}}
    \cup {TwoOpts("bogus", "value", "multiline-regex", v) : v \in {"[", ""}}
    \cup {TwoOpts("field-X", "ab", "field-", "a(b)"),
          TwoOpts("tag", "{{", "multiline-regex", "")}

----------------------------------------------------------------------------
(* Severity: regular expressions and DetectPriority *)

LF == "\n"

PriEmerg == 0
PriAlert == 1
PriCrit == 2
PriErr == 3
PriWarning == 4
PriNotice == 5
PriInfo == 6
PriDebug == 7

\* line has the bytes w at position k
HasAt(line, w, k) ==
    /\ k >= 1
    /\ k + Len(w) - 1 <= Len(line)
    /\ SubSeq(line, k, k + Len(w) - 1) = w

\* Regexp.Match for the three shapes of pattern in the model.  Without the
\* flags m and s, ^ is the start of the text and . is any byte but newline.
\*   "anchored"  ^w          "lead"  ^.{0,n}w          "find"  w
Match(re, line) ==
    CASE re.kind = "anchored" -> HasAt(line, re.word, 1)
      [] re.kind = "lead" ->
            \E k \in 0..re.n : /\ HasAt(line, re.word, k + 1)
                               /\ \A j \in 1..k : line[j] # LF
      [] re.kind = "find" -> \E k \in 1..Len(line) : HasAt(line, re.word, k)

Anchored(w) == [kind |-> "anchored", word |-> w, n |-> 0]
Lead(n, w)  == [kind |-> "lead", word |-> w, n |-> n]
Find(w)     == [kind |-> "find", word |-> w, n |-> 0]

\* the ASCII digits 0..7 and firstLine[loc[2]] - '0'
OctalDigits == {"0", "1", "2", "3", "4", "5", "6", "7"}
DigitValue(c) ==
    CASE c = "0" -> 0 [] c = "1" -> 1 [] c = "2" -> 2 [] c = "3" -> 3
      [] c = "4" -> 4 [] c = "5" -> 5 [] c = "6" -> 6 [] c = "7" -> 7

\* sdDaemonPrefix.FindSubmatchIndex(firstLine) != nil, for ^<([0-7])>
SdDaemonPrefixed(line) ==
    /\ Len(line) >= 3
    /\ line[1] = "<"
    /\ line[2] \in OctalDigits
    /\ line[3] = ">"

\* the index of the first matcher of the list that matches, 0 if none does
RECURSIVE FirstMatch(_, _, _)
FirstMatch(matchers, line, i) ==
    IF i > Len(matchers) THEN 0
    ELSE IF Match(matchers[i].Regex, line) THEN i
    ELSE FirstMatch(matchers, line, i + 1)

\* step 3 of DetectPriority: the default for the source
SourceDefault(c, source) ==
    IF source = "stderr" THEN c.PriorityDefaultStderr ELSE c.PriorityDefaultStdout

\* faulty variant: the matchers are tried before the sd-daemon prefix
DetectPriorityMatchersFirst(c, firstLine, source) ==
    LET i == FirstMatch(c.PriorityMatchers, firstLine, 1)
    IN IF i # 0
       THEN [pri |-> c.PriorityMatchers[i].Priority, line |-> firstLine]
       ELSE IF c.PriorityPrefix /\ SdDaemonPrefixed(firstLine)
       THEN [pri |-> DigitValue(firstLine[2]),
             line |-> SubSeq(firstLine, 4, Len(firstLine))]
       ELSE [pri |-> SourceDefault(c, source), line |-> firstLine]

DetectPriority(c, firstLine, source) ==
    IF c.PriorityPrefix /\ SdDaemonPrefixed(firstLine)
    THEN [pri |-> DigitValue(firstLine[2]),
          line |-> SubSeq(firstLine, 4, Len(firstLine))]
    ELSE LET i == FirstMatch(c.PriorityMatchers, firstLine, 1)
         IN IF i # 0
            THEN [pri |-> c.PriorityMatchers[i].Priority, line |-> firstLine]
            ELSE [pri |-> SourceDefault(c, source), line |-> firstLine]

----------------------------------------------------------------------------
(* Field names: sanitizeFieldName *)

\* A name is a sequence of runes, each a one-character string; "é" stands
\* for any rune outside ASCII.
LowerLetters == <<"a", "b", "c", "d", "e", "f", "g", "h", "i", "j", "k", "l", "m", "n", "o", "p", "q", "r", "s", "t", "u", "v", "w", "x", "y", "z">>
UpperLetters == <<"A", "B", "C", "D", "E", "F", "G", "H", "I", "J", "K", "L", "M", "N", "O", "P", "Q", "R", "S", "T", "U", "V", "W", "X", "Y", "Z">>
Digits == {"0", "1", "2", "3", "4", "5", "6", "7", "8", "9"}

IsLower(r) == \E i \in DOMAIN LowerLetters : LowerLetters[i] = r
IsUpper(r) == \E i \in DOMAIN UpperLetters : UpperLetters[i] = r

\* r - 32 for a lowercase letter
UpperOf(r) == UpperLetters[CHOOSE i \in DOMAIN LowerLetters : LowerLetters[i] = r]

\* faulty variant: a result that does not start with a letter gets the
\* underscore in front
sanitizeFieldNamePrefixAlways(name) ==
    LET result == [i \in 1..Len(name) |->
                      IF IsLower(name[i]) THEN UpperOf(name[i])
                      ELSE IF IsUpper(name[i]) \/ name[i] \in Digits THEN name[i]
                      ELSE "_"]
    IN IF Len(result) > 0 /\ ~IsUpper(result[1]) THEN <<"_">> \o result ELSE result

\* faulty variant: a leading digit is left in front
sanitizeFieldNameKeepsDigit(name) ==
    [i \in 1..Len(name) |->
        IF IsLower(name[i]) THEN UpperOf(name[i])
        ELSE IF IsUpper(name[i]) \/ name[i] \in Digits THEN name[i]
        ELSE "_"]

sanitizeFieldName(name) ==
    LET result == [i \in 1..Len(name) |->
                      IF IsLower(name[i]) THEN UpperOf(name[i])
                      ELSE IF IsUpper(name[i]) \/ name[i] \in Digits THEN name[i]
                      ELSE "_"]
    IN IF Len(result) > 0 /\ result[1] \in Digits THEN <<"_">> \o result ELSE result

\* the names the writer uses as they are
NameContainerID == <<"C", "O", "N", "T", "A", "I", "N", "E", "R", "_", "I", "D">>
NameContainerIDFull == <<"C", "O", "N", "T", "A", "I", "N", "E", "R", "_", "I", "D", "_", "F", "U", "L", "L">>
NameContainerName == <<"C", "O", "N", "T", "A", "I", "N", "E", "R", "_", "N", "A", "M", "E">>
NameImageName == <<"I", "M", "A", "G", "E", "_", "N", "A", "M", "E">>
NameContainerTag == <<"C", "O", "N", "T", "A", "I", "N", "E", "R", "_", "T", "A", "G">>
NameSyslogIdentifier == <<"S", "Y", "S", "L", "O", "G", "_", "I", "D", "E", "N", "T", "I", "F", "I", "E", "R">>
NameSyslogTimestamp == <<"S", "Y", "S", "L", "O", "G", "_", "T", "I", "M", "E", "S", "T", "A", "M", "P">>
PrefixJSON == <<"J", "S", "O", "N", "_">>

\* keys of JSON members and the name of the model's field extractor
KeyLevel == <<"l", "e", "v", "e", "l">>
KeySeverity == <<"s", "e", "v", "e", "r", "i", "t", "y">>
KeyMessage == <<"m", "e", "s", "s", "a", "g", "e">>
KeyMsg == <<"m", "s", "g">>
KeyUser == <<"u", "s", "e", "r">>
NameRequestID == <<"R", "E", "Q", "U", "E", "S", "T", "_", "I", "D">>

----------------------------------------------------------------------------
(* JSON bodies: ParseJSONLog and JSONLevelToPriority *)

\* A JSON text of the model is "{", members, "}", with white space anywhere
\* between them.  One byte stands for one member:
\*   L  "level":"PANIC"     U  "level":"bogus"     N  "level":3
\*   M  "message":"<3>E"    Q  "message":""        K  "message":3
\*   G  "msg":"x"           F  "user":"bob"
JSONWhitespace == {SP, LF}

JSONMembers == {"L", "U", "N", "M", "Q", "K", "G", "F"}

MemberKey(b) ==
    CASE b = "L" -> KeyLevel [] b = "U" -> KeyLevel [] b = "N" -> KeyLevel
      [] b = "M" -> KeyMessage [] b = "Q" -> KeyMessage [] b = "K" -> KeyMessage
      [] b = "G" -> KeyMsg [] b = "F" -> KeyUser

\* the value of a member: whether it is a JSON string, and its content (a
\* name for a level, bytes for anything else)
MemberValue(b) ==
    CASE b = "L" -> [isString |-> TRUE,  level |-> "PANIC", bytes |-> <<>>]
      [] b = "U" -> [isString |-> TRUE,  level |-> "bogus", bytes |-> <<>>]
      [] b = "N" -> [isString |-> FALSE, level |-> "",      bytes |-> <<"3">>]
      [] b = "M" -> [isString |-> TRUE,  level |-> "",      bytes |-> <<"<", "3", ">", "E">>]
      [] b = "Q" -> [isString |-> TRUE,  level |-> "",      bytes |-> <<>>]
      [] b = "K" -> [isString |-> FALSE, level |-> "",      bytes |-> <<"3">>]
      [] b = "G" -> [isString |-> TRUE,  level |-> "",      bytes |-> <<"x">>]
      [] b = "F" -> [isString |-> TRUE,  level |-> "",      bytes |-> <<"b", "o", "b">>]

NotWhitespace(b) == b \notin JSONWhitespace

\* json.Unmarshal(line, &obj) into a map: the text must be one object; of
\* two members with the same key the later one stays
Unmarshal(line) ==
    LET toks == SelectSeq(line, NotWhitespace)
    IN IF /\ Len(toks) >= 2
          /\ toks[1] = "{"
          /\ toks[Len(toks)] = "}"
          /\ \A i \in 2..(Len(toks) - 1) : toks[i] \in JSONMembers
       THEN LET keys == {MemberKey(toks[i]) : i \in 2..(Len(toks) - 1)}
                lastOf(k) == CHOOSE i \in 2..(Len(toks) - 1) :
                                /\ MemberKey(toks[i]) = k
                                /\ \A j \in 2..(Len(toks) - 1) :
                                      MemberKey(toks[j]) = k => j <= i
            IN [ok |-> TRUE, obj |-> [k \in keys |-> MemberValue(toks[lastOf(k)])]]
       ELSE [ok |-> FALSE, obj |-> [k \in {} |-> 0]]

\* the place in the list of the first key that the object holds with a
\* string value, 0 if there is none
RECURSIVE FirstStringKey(_, _, _)
FirstStringKey(keys, obj, i) ==
    IF i > Len(keys) THEN 0
    ELSE IF keys[i] \in DOMAIN obj /\ obj[keys[i]].isString THEN i
    ELSE FirstStringKey(keys, obj, i + 1)

NotJSON == [ok |-> FALSE, Level |-> "", Message |-> <<>>, ExtraFields |-> [k \in {} |-> <<>>]]

\* one of the two key loops: the first key of the list that the object
\* holds with a string value, that value, and the object without the key
TakeStringKey(keys, obj) ==
    LET i == FirstStringKey(keys, obj, 1)
    IN IF i = 0
       THEN [found |-> FALSE, key |-> <<>>,
             value |-> [isString |-> FALSE, level |-> "", bytes |-> <<>>],
             rest |-> obj]
       ELSE [found |-> TRUE, key |-> keys[i], value |-> obj[keys[i]],
             rest |-> [k \in DOMAIN obj \ {keys[i]} |-> obj[k]]]

\* the end of ParseJSONLog: no result without a message, else the level, the
\* message and the fields of remaining flattened to strings
JSONResult(lv, ms, remaining) ==
    IF ms.value.bytes = <<>> THEN NotJSON
    ELSE [ok |-> TRUE,
          Level |-> IF lv.found THEN lv.value.level ELSE "",
          Message |-> ms.value.bytes,
          ExtraFields |-> [k \in DOMAIN remaining |-> remaining[k].bytes]]

\* the message loop, run on the object the level loop left
MessageFrom(c, lv) == TakeStringKey(c.JSONMessageKeys, lv.rest)

\* ParseJSONLog once the line is unmarshalled
ParseJSONObject(c, u, keepKey) ==
    IF ~u.ok THEN NotJSON
    ELSE JSONResult(TakeStringKey(c.JSONLevelKeys, u.obj),
                    MessageFrom(c, TakeStringKey(c.JSONLevelKeys, u.obj)),
                    IF keepKey
                    THEN TakeStringKey(c.JSONLevelKeys, u.obj).rest
                    ELSE MessageFrom(c, TakeStringKey(c.JSONLevelKeys, u.obj)).rest)

\* faulty variant: the message key stays among the remaining fields
ParseJSONLogKeepsKey(c, line) ==
    IF ~c.ParseJSON \/ Len(line) = 0 THEN NotJSON
    ELSE ParseJSONObject(c, Unmarshal(line), TRUE)

ParseJSONLog(c, line) ==
    IF ~c.ParseJSON \/ Len(line) = 0 THEN NotJSON
    ELSE ParseJSONObject(c, Unmarshal(line), FALSE)

\* faulty variant: a level the table does not know counts as debug
JSONLevelToPriorityLenient(level) ==
    LET l == ToLower(level)
    IN IF l \in {"panic", "alert"} THEN [ok |-> TRUE, pri |-> 1]
       ELSE [ok |-> TRUE, pri |-> 7]

JSONLevelToPriority(level) ==
    LET l == ToLower(level)
    IN IF l \in {"debug", "trace"} THEN [ok |-> TRUE, pri |-> 7]
       ELSE IF l \in {"info", "information"} THEN [ok |-> TRUE, pri |-> 6]
       ELSE IF l = "notice" THEN [ok |-> TRUE, pri |-> 5]
       ELSE IF l \in {"warn", "warning"} THEN [ok |-> TRUE, pri |-> 4]
       ELSE IF l \in {"error", "err"} THEN [ok |-> TRUE, pri |-> 3]
       ELSE IF l \in {"fatal", "critical", "crit"} THEN [ok |-> TRUE, pri |-> 2]
       ELSE IF l \in {"panic", "alert"} THEN [ok |-> TRUE, pri |-> 1]
       ELSE IF l \in {"emerg", "emergency"} THEN [ok |-> TRUE, pri |-> 0]
       ELSE [ok |-> FALSE, pri |-> 0]

----------------------------------------------------------------------------
(* Timestamp stripping: StripTimestamp *)

\* the bytes of trailingSep, ^[\s:|\-]*
SepBytes == {SP, LF, ":", "|", "-"}

RECURSIVE DropSep(_)
DropSep(rest) ==
    IF rest # <<>> /\ Head(rest) \in SepBytes THEN DropSep(Tail(rest)) ELSE rest

\* re.FindIndex(line)[1], the end of the leftmost match (0 when none), for
\* the patterns ^w and w
FindEnd(re, line) ==
    IF ~Match(re, line) THEN 0
    ELSE LET k == CHOOSE i \in 1..Len(line) :
                     /\ HasAt(line, re.word, i)
                     /\ \A j \in 1..(i - 1) : ~HasAt(line, re.word, j)
         IN k + Len(re.word) - 1

RECURSIVE StripTimestampFrom(_, _, _)
StripTimestampFrom(line, patterns, i) ==
    IF i > Len(patterns) THEN line
    ELSE IF ~Match(patterns[i], line) THEN StripTimestampFrom(line, patterns, i + 1)
    ELSE LET rest == DropSep(SubSeq(line, FindEnd(patterns[i], line) + 1, Len(line)))
         IN IF Len(rest) > 0 THEN rest ELSE line

\* faulty variant: whatever is left after the match and the separators is
\* returned, also when nothing is left
StripTimestampToEmpty(line, patterns) ==
    LET hit == {i \in 1..Len(patterns) : Match(patterns[i], line)}
    IN IF hit = {} THEN line
       ELSE LET i == CHOOSE k \in hit : \A j \in hit : k <= j
            IN DropSep(SubSeq(line, FindEnd(patterns[i], line) + 1, Len(line)))

StripTimestamp(line, patterns) == StripTimestampFrom(line, patterns, 1)

----------------------------------------------------------------------------
(* Field extractors and the journal writer *)

\* An extractor pattern of the model is w(c): the bytes w followed by one
\* byte of the set c, which is the first capture group.
\* Regex.FindStringSubmatch(message): the capture of the leftmost match
ExtractorMatches(re, message) ==
    \E k \in 1..Len(message) :
        /\ HasAt(message, re.word, k)
        /\ k + Len(re.word) <= Len(message)
        /\ message[k + Len(re.word)] \in re.capture

FirstCapture(re, message) ==
    LET k == CHOOSE i \in 1..Len(message) :
                /\ HasAt(message, re.word, i)
                /\ i + Len(re.word) <= Len(message)
                /\ message[i + Len(re.word)] \in re.capture
                /\ \A j \in 1..(i - 1) :
                      ~(/\ HasAt(message, re.word, j)
                        /\ j + Len(re.word) <= Len(message)
                        /\ message[j + Len(re.word)] \in re.capture)
    IN <<message[k + Len(re.word)]>>

\* Config.ExtractFields: field name -> first capture, for the extractors
\* that match
ExtractFields(c, message) ==
    LET hit == {i \in 1..Len(c.FieldExtractors) :
                   ExtractorMatches(c.FieldExtractors[i].Regex, message)}
        name(i) == c.FieldExtractors[i].FieldName
    IN [f \in {name(i) : i \in hit} |->
           FirstCapture(c.FieldExtractors[CHOOSE i \in hit : name(i) = f].Regex, message)]

\* a map with the entries of g put over those of f
Override(f, g) ==
    [x \in DOMAIN f \cup DOMAIN g |-> IF x \in DOMAIN g THEN g[x] ELSE f[x]]

\* a *regexp.Regexp that is nil
NilRegex == [kind |-> "nil", word |-> <<>>, n |-> 0]

\* addFilteredFields: the entries of source whose key is listed or matches
\* re, under the sanitized key; of two keys with one sanitized name either
\* value may stay (the map is walked in no fixed order)
addFilteredFields(fields, source, keys, re) ==
    IF Len(keys) = 0 /\ re = NilRegex THEN fields
    ELSE LET chosen == {k \in DOMAIN source :
                           \/ \E i \in 1..Len(keys) : keys[i] = k
                           \/ re # NilRegex /\ Match(re, k)}
             fieldNames == {sanitizeFieldName(k) : k \in chosen}
         IN Override(fields,
                     [f \in fieldNames |->
                         source[CHOOSE k \in chosen : sanitizeFieldName(k) = f]])

\* strings.Cut(e, "="): the place of the first "=", 0 if there is none
CutAt(e) ==
    IF \E i \in 1..Len(e) : e[i] = "="
    THEN CHOOSE i \in 1..Len(e) : e[i] = "=" /\ \A j \in 1..(i - 1) : e[j] # "="
    ELSE 0

\* the map built from info.ContainerEnv; a later entry for a key replaces
\* an earlier one
EnvMap(env) ==
    LET cut == {i \in 1..Len(env) : CutAt(env[i]) # 0}
        key(i) == SubSeq(env[i], 1, CutAt(env[i]) - 1)
        lastFor(k) == CHOOSE i \in cut : key(i) = k /\ \A j \in cut : key(j) = k => j <= i
    IN [k \in {key(i) : i \in cut} |->
           SubSeq(env[lastFor(k)], CutAt(env[lastFor(k)]) + 1, Len(env[lastFor(k)]))]

\* journalWriter.buildBaseVars for a configuration whose tag renders
buildBaseVars(c, info) ==
    LET name == IF info.ContainerName # <<>> /\ Head(info.ContainerName) = "/"
                THEN Tail(info.ContainerName) ELSE info.ContainerName
        id == IF Len(info.ContainerID) >= 12 THEN SubSeq(info.ContainerID, 1, 12) ELSE <<>>
        tag == IF c.Tag = <<>> THEN name ELSE c.Tag
        meta == [f \in {NameContainerID, NameContainerIDFull, NameContainerName,
                        NameImageName, NameContainerTag, NameSyslogIdentifier} |->
                    IF f = NameContainerID THEN id
                    ELSE IF f = NameContainerIDFull THEN info.ContainerID
                    ELSE IF f = NameContainerName THEN name
                    ELSE IF f = NameImageName THEN info.ContainerImageName
                    ELSE tag]
        withLabels == addFilteredFields(meta, info.ContainerLabels, c.Labels, c.LabelsRegex)
    IN addFilteredFields(withLabels, EnvMap(info.ContainerEnv), c.Env, c.EnvRegex)

\* newJournalWriter
newJournalWriter(c, info) == [baseVars |-> buildBaseVars(c, info)]

\* time.Unix(0, n).IsZero(): the zero Time is the first instant of year 1,
\* which is n = -62135596800000000000, below every int64; no n gives it
UnixIsZero(n) == FALSE

\* ts.Format(time.RFC3339Nano) for time.Unix(0, n)
FormatTime(n) == <<"t", n>>

\* journalWriter.Write: the message, priority and fields given to sendFn; of
\* two JSON keys with one sanitized name either value may stay
Write(w, msg, pri, processedLine, jsonFields) ==
    LET jsonNames == {PrefixJSON \o sanitizeFieldName(k) : k \in DOMAIN jsonFields}
        keyOf(f) == CHOOSE k \in DOMAIN jsonFields : PrefixJSON \o sanitizeFieldName(k) = f
        withJSON == Override(w.baseVars, [f \in jsonNames |-> jsonFields[keyOf(f)]])
    IN [message |-> processedLine,
        priority |-> pri,
        vars |-> IF ~UnixIsZero(msg.TimeNano)
                 THEN Override(withJSON,
                               [f \in {NameSyslogTimestamp} |-> FormatTime(msg.TimeNano)])
                 ELSE withJSON]

\* the writer of the pipeline whose callback is examined: a container named
\* /app, no tag option, no labels or env selected
AppInfo ==
    [ContainerID |-> <<"c", "0", "f", "f", "e", "e", "1", "2", "3", "4", "5", "6", "7">>,
     ContainerName |-> <<"/", "a", "p", "p">>,
     ContainerImageName |-> <<"i", "m", "g">>,
     ContainerLabels |-> [k \in {} |-> <<>>],
     ContainerEnv |-> <<>>]

NoSelection ==
    [Tag |-> <<>>, Labels |-> <<>>, LabelsRegex |-> NilRegex, Env |-> <<>>,
     EnvRegex |-> NilRegex]

AppWriter == newJournalWriter(NoSelection, AppInfo)

\* the callback after JSON extraction: line is the body or the JSON message,
\* lvl the severity of the JSON level, stripped the line after StripTimestamp
CallbackWrite(c, msg, parsed, lvl, stripped) ==
    IF lvl.ok
    THEN Write(AppWriter, msg, lvl.pri, stripped,
               IF parsed.ok THEN parsed.ExtraFields ELSE [k \in {} |-> <<>>])
    ELSE Write(AppWriter, msg, DetectPriority(c, stripped, msg.Source).pri,
               DetectPriority(c, stripped, msg.Source).line,
               IF parsed.ok THEN parsed.ExtraFields ELSE [k \in {} |-> <<>>])

CallbackStrip(c, msg, parsed, line) ==
    CallbackWrite(c, msg, parsed,
                  IF parsed.ok /\ parsed.Level # ""
                  THEN JSONLevelToPriority(parsed.Level)
                  ELSE [ok |-> FALSE, pri |-> 0],
                  IF c.StripTimestamp THEN StripTimestamp(line, c.StripTimestampPatterns)
                  ELSE line)

CallbackParsed(c, msg, parsed) ==
    CallbackStrip(c, msg, parsed,
                  IF parsed.ok /\ parsed.Message # <<>> THEN parsed.Message ELSE msg.Line)

\* the merger's output callback, up to the call of sendFn
OutputCallback(c, msg) == CallbackParsed(c, msg, ParseJSONLog(c, msg.Line))

----------------------------------------------------------------------------
(* Inputs *)

FullEntry(source, timeNano, line) ==
    [Source |-> source, TimeNano |-> timeNano, Line |-> line,
     Partial |-> FALSE, PartialLogMetadata |-> NoMeta]

Fragment(source, timeNano, line, id, ordinal, last) ==
    [Source |-> source, TimeNano |-> timeNano, Line |-> line, Partial |-> TRUE,
     PartialLogMetadata |-> [ID |-> id, Ordinal |-> ordinal, Last |-> last]]

\* The records the producer may write as the t-th record of the stream; it
\* stamps each record with its clock.  A first line on stdout, a one-byte
\* continuation on stderr, a two-byte continuation on stdout, and the two
\* fragments of group "g", which may arrive in any order and number.
StreamEntries(t) ==
    { FullEntry("stdout", t, <<X, X, X>>),
      FullEntry("stderr", t, <<SP>>),
      FullEntry("stdout", t, <<SP, X>>),
      Fragment("stderr", t, <<X>>, "g", 2, FALSE),
      Fragment("stdout", t, <<SP>>, "g", 1, TRUE) }

----------------------------------------------------------------------------
(* Initial state: a driver with an empty registry, no pipeline yet *)

Init ==
    /\ registered = FALSE
    /\ cfg = [enabled |-> TRUE]
    /\ ctxDone = FALSE
    /\ fclosed = FALSE
    /\ done = FALSE
    /\ pc = "init"
    /\ cur = NoLine
    /\ nread = 0
    /\ groups = <<>>
    /\ merger = NewMerger
    /\ mu = "free"
    /\ pendingCb = 0
    /\ sending = NoMsg
    /\ spc = [s \in Stoppers |-> "idle"]
    /\ sfound = [s \in Stoppers |-> FALSE]
    /\ fed = <<>>
    /\ sent = <<>>
    /\ bufIdx = <<>>
    /\ arrived = <<>>
    /\ produced = <<>>
    /\ now = 0
    /\ lastErrLog = ZeroTime
    /\ suppressedErrs = 0
    /\ reports = <<>>
    /\ failed = {}
    /\ answers = <<>>
    /\ opened = FALSE
    /\ detected = [called |-> FALSE]
    /\ written = <<>>
    /\ consumers = [p \in Paths |-> 0]
    /\ tasks = <<>>
    /\ stopping = {}
    /\ dmu = Unlocked
    /\ probe = [fn |-> "none"]

----------------------------------------------------------------------------
(* Supervisor *)

\* handleStartLogging with valid options: register the consumer, start the task
BeginStream ==
    /\ pc = "init"
    /\ \E en \in BOOLEAN : cfg' = [enabled |-> en]
    /\ opened' = TRUE
    /\ registered' = TRUE
    /\ pc' = "read"
    /\ answers' = Append(answers, [opts |-> IF cfg'.enabled THEN NoOpts
                                            ELSE OneOpt("multiline-regex", ""),
                                   err |-> ""])
    /\ UNCHANGED <<ctxDone, fclosed, done, cur, nread, spc, sfound, fed, detected,
                   written, probe>>
    /\ UNCHANGED supVars
    /\ UNCHANGED mergVars
    /\ UNCHANGED partVars
    /\ UNCHANGED repVars
    /\ UNCHANGED failed

\* faulty variant: the entry is not checked, the call cancels and waits
StopLookupUnchecked(s) ==
    /\ spc[s] = "idle"
    /\ s = "stopB" => spc["stopA"] # "idle"
    /\ sfound' = [sfound EXCEPT ![s] = TRUE]
    /\ registered' = FALSE
    /\ spc' = [spc EXCEPT ![s] = "cancel"]
    /\ UNCHANGED <<cfg, ctxDone, fclosed, done, pc, cur, nread, fed>>
    /\ UNCHANGED mergVars
    /\ UNCHANGED partVars
    /\ UNCHANGED repVars
    /\ UNCHANGED failed
    /\ UNCHANGED extVars

\* handleStopLogging, under d.mu: look the path up and delete the entry; of
\* the two calls, stopA names the one that takes d.mu first
StopLookup(s) ==
    /\ spc[s] = "idle"
    /\ s = "stopB" => spc["stopA"] # "idle"
    /\ sfound' = [sfound EXCEPT ![s] = registered]
    /\ registered' = FALSE
    /\ spc' = [spc EXCEPT ![s] = IF registered THEN "cancel" ELSE "returned"]
    /\ UNCHANGED <<cfg, ctxDone, fclosed, done, pc, cur, nread, fed>>
    /\ UNCHANGED mergVars
    /\ UNCHANGED partVars
    /\ UNCHANGED repVars
    /\ UNCHANGED failed
    /\ UNCHANGED extVars

\* handleStopLogging: lc.cancel()
StopCancel(s) ==
    /\ spc[s] = "cancel"
    /\ ctxDone' = TRUE
    /\ spc' = [spc EXCEPT ![s] = "wait"]
    /\ UNCHANGED <<registered, cfg, fclosed, done, pc, cur, nread, sfound, fed>>
    /\ UNCHANGED mergVars
    /\ UNCHANGED partVars
    /\ UNCHANGED repVars
    /\ UNCHANGED failed
    /\ UNCHANGED extVars

\* handleStopLogging: <-lc.done, then respondOK
StopWait(s) ==
    /\ spc[s] = "wait"
    /\ done
    /\ spc' = [spc EXCEPT ![s] = "returned"]
    /\ UNCHANGED <<registered, cfg, ctxDone, fclosed, done, pc, cur, nread, sfound, fed>>
    /\ UNCHANGED mergVars
    /\ UNCHANGED partVars
    /\ UNCHANGED repVars
    /\ UNCHANGED failed
    /\ UNCHANGED extVars

\* faulty variant: the watcher sees the cancellation and leaves the stream open
CancelWatcherLeavesOpen ==
    /\ pc # "init"
    /\ ctxDone
    /\ ~fclosed
    /\ UNCHANGED vars

\* consumeLog's watcher goroutine: <-ctx.Done(); f.Close()
CancelWatcher ==
    /\ pc # "init"
    /\ ctxDone
    /\ ~fclosed
    /\ fclosed' = TRUE
    /\ UNCHANGED <<registered, cfg, ctxDone, done, pc, cur, nread, spc, sfound, fed>>
    /\ UNCHANGED mergVars
    /\ UNCHANGED partVars
    /\ UNCHANGED repVars
    /\ UNCHANGED failed
    /\ UNCHANGED extVars

----------------------------------------------------------------------------
(* Processing task: consumeLog *)

IsFragment(e) == e.Partial /\ e.PartialLogMetadata # NoMeta

\* dec.decode returns a record; partial.Add buffers it or completes a line
TaskRead ==
    /\ pc = "read"
    /\ ~fclosed
    /\ nread < MaxRecords
    /\ \E e \in StreamEntries(nread + 1) :
          LET r == Add(groups, e)
          IN /\ groups' = r.groups
             /\ arrived' = Append(arrived, e)
             /\ produced' = IF IsFragment(e) /\ r.complete
                            THEN Append(produced,
                                   [at |-> Len(arrived) + 1, line |-> r.line,
                                    source |-> r.source, timeNano |-> r.timeNano])
                            ELSE produced
             /\ IF r.complete
                THEN /\ cur' = [line |-> r.line, source |-> r.source,
                                timeNano |-> r.timeNano]
                     /\ pc' = "addline"
                ELSE /\ cur' = cur
                     /\ pc' = "read"
    /\ nread' = nread + 1
    /\ UNCHANGED <<registered, cfg, ctxDone, fclosed, done, spc, sfound, fed>>
    /\ UNCHANGED mergVars
    /\ UNCHANGED repVars
    /\ UNCHANGED failed
    /\ UNCHANGED extVars

\* faulty variant: at EOF a pending group is assembled and given to AddLine
TaskReadEOFDrainsGroups ==
    /\ pc = "read"
    /\ ~fclosed
    /\ IF DOMAIN groups = {}
       THEN pc' = "flush" /\ UNCHANGED <<cur, groups>>
       ELSE LET id == CHOOSE i \in DOMAIN groups : TRUE
            IN /\ cur' = [line |-> Assemble(SortParts(groups[id].parts)),
                          source |-> groups[id].source,
                          timeNano |-> groups[id].timeNano]
               /\ groups' = [i \in DOMAIN groups \ {id} |-> groups[i]]
               /\ pc' = "addline"
    /\ UNCHANGED <<registered, cfg, ctxDone, fclosed, done, nread, spc, sfound, fed,
                   arrived, produced>>
    /\ UNCHANGED mergVars
    /\ UNCHANGED repVars
    /\ UNCHANGED failed
    /\ UNCHANGED extVars

\* dec.decode returns io.EOF: the producer closed the stream
TaskReadEOF ==
    /\ pc = "read"
    /\ ~fclosed
    /\ pc' = "flush"
    /\ UNCHANGED <<registered, cfg, ctxDone, fclosed, done, cur, nread, spc, sfound, fed>>
    /\ UNCHANGED mergVars
    /\ UNCHANGED partVars
    /\ UNCHANGED repVars
    /\ UNCHANGED failed
    /\ UNCHANGED extVars

\* the read loop's handling of a decode error that is not io.EOF: reported
\* through logError unless the context is already cancelled
DecodeFailed ==
    IF ctxDone
    THEN UNCHANGED repVars
    ELSE LET r == LogError(lastErrLog, suppressedErrs, now, "decode")
         IN /\ lastErrLog' = r.lastErrLog
            /\ suppressedErrs' = r.suppressedErrs
            /\ reports' = Append(reports, r.report)
            /\ now' = now

\* faulty variant: a decode error ends the task without the final Flush
TaskReadErrorNoDrain ==
    /\ pc = "read"
    /\ ~fclosed
    /\ pc' = "close"
    /\ DecodeFailed
    /\ UNCHANGED <<registered, cfg, ctxDone, fclosed, done, cur, nread, spc, sfound, fed>>
    /\ UNCHANGED mergVars
    /\ UNCHANGED partVars
    /\ UNCHANGED failed
    /\ UNCHANGED extVars

\* dec.decode fails on a malformed frame
TaskReadError ==
    /\ pc = "read"
    /\ ~fclosed
    /\ pc' = "flush"
    /\ DecodeFailed
    /\ UNCHANGED <<registered, cfg, ctxDone, fclosed, done, cur, nread, spc, sfound, fed>>
    /\ UNCHANGED mergVars
    /\ UNCHANGED partVars
    /\ UNCHANGED failed
    /\ UNCHANGED extVars

\* dec.decode fails because the watcher closed the stream after cancellation
TaskReadClosed ==
    /\ pc = "read"
    /\ fclosed
    /\ pc' = "flush"
    /\ DecodeFailed
    /\ UNCHANGED <<registered, cfg, ctxDone, fclosed, done, cur, nread, spc, sfound, fed>>
    /\ UNCHANGED mergVars
    /\ UNCHANGED partVars
    /\ UNCHANGED failed
    /\ UNCHANGED extVars

\* which branch AddLine takes once it holds the lock
AddLineBranch(m, line) ==
    IF ~IsContinuation(line)
    THEN IF m.hasData THEN "flush_seed" ELSE "seed"
    ELSE IF ~m.hasData THEN "seed"
    ELSE IF LimitReached(m, line) THEN "flush_seed"
    ELSE "append"

\* faulty variant: the new line is sent at once and the old buffer is kept
EmitNewKeepOld(m, old, line, source, timeNano, n) ==
    [emit |-> [msg |-> PassThroughMsg(line, source, timeNano), idx |-> <<n>>,
               seed |-> FALSE, by |-> "addline"],
     m |-> ResetTimerLocked(m), idx |-> old]

\* AddLine's "flush any buffered content first" on a buffer that has data:
\* flushLocked builds the message, resets the buffer and calls output; the
\* seed of the new buffer follows when output has returned.  old and n are
\* the history of the buffer and the position of the new line.
FlushThenSeed(m, old, line, source, timeNano, n) ==
    [emit |-> [msg |-> FlushMsg(m), idx |-> old, seed |-> TRUE, by |-> "addline"],
     m |-> FlushReset(m), idx |-> <<>>]

\* faulty variant: AddLine does not wait for the lock
TaskAddLineNoLock ==
    /\ pc = "addline"
    /\ fed' = Append(fed, cur)
    /\ LET n == Len(fed) + 1
       IN IF MultilineDisabled(cfg)
          THEN /\ sending' = [msg |-> PassThroughMsg(cur.line, cur.source, cur.timeNano),
                              idx |-> <<n>>, seed |-> FALSE, by |-> "direct"]
               /\ pc' = "send"
               /\ UNCHANGED <<merger, mu, bufIdx>>
          ELSE /\ TRUE
               /\ LET br == AddLineBranch(merger, cur.line)
                  IN CASE br = "flush_seed" ->
                            LET plan == FlushThenSeed(merger, bufIdx, cur.line,
                                                      cur.source, cur.timeNano, n)
                            IN /\ sending' = plan.emit
                               /\ merger' = plan.m
                               /\ bufIdx' = plan.idx
                               /\ mu' = "task"
                               /\ pc' = "send"
                       [] br = "seed" ->
                            /\ merger' = StartBuffer(merger, cur.line, cur.source,
                                                     cur.timeNano)
                            /\ bufIdx' = <<n>>
                            /\ pc' = "read"
                            /\ UNCHANGED <<sending, mu>>
                       [] br = "append" ->
                            /\ merger' = AppendContinuation(merger, cur.line,
                                                            cur.source, cur.timeNano)
                            /\ bufIdx' = Append(bufIdx, n)
                            /\ pc' = "read"
                            /\ UNCHANGED <<sending, mu>>
    /\ UNCHANGED <<registered, cfg, ctxDone, fclosed, done, cur, nread, spc, sfound,
                   pendingCb, sent>>
    /\ UNCHANGED partVars
    /\ UNCHANGED repVars
    /\ UNCHANGED failed
    /\ UNCHANGED extVars

\* merger.AddLine(line, source, timeNano), up to the point where it returns or
\* blocks in output
TaskAddLine ==
    /\ pc = "addline"
    /\ fed' = Append(fed, cur)
    /\ LET n == Len(fed) + 1
       IN IF MultilineDisabled(cfg)
          THEN /\ sending' = [msg |-> PassThroughMsg(cur.line, cur.source, cur.timeNano),
                              idx |-> <<n>>, seed |-> FALSE, by |-> "direct"]
               /\ pc' = "send"
               /\ UNCHANGED <<merger, mu, bufIdx>>
          ELSE /\ mu = "free"
               /\ LET br == AddLineBranch(merger, cur.line)
                  IN CASE br = "flush_seed" ->
                            LET plan == FlushThenSeed(merger, bufIdx, cur.line,
                                                      cur.source, cur.timeNano, n)
                            IN /\ sending' = plan.emit
                               /\ merger' = plan.m
                               /\ bufIdx' = plan.idx
                               /\ mu' = "task"
                               /\ pc' = "send"
                       [] br = "seed" ->
                            /\ merger' = StartBuffer(merger, cur.line, cur.source,
                                                     cur.timeNano)
                            /\ bufIdx' = <<n>>
                            /\ pc' = "read"
                            /\ UNCHANGED <<sending, mu>>
                       [] br = "append" ->
                            /\ merger' = AppendContinuation(merger, cur.line,
                                                            cur.source, cur.timeNano)
                            /\ bufIdx' = Append(bufIdx, n)
                            /\ pc' = "read"
                            /\ UNCHANGED <<sending, mu>>
    /\ UNCHANGED <<registered, cfg, ctxDone, fclosed, done, cur, nread, spc, sfound,
                   pendingCb, sent>>
    /\ UNCHANGED partVars
    /\ UNCHANGED repVars
    /\ UNCHANGED failed
    /\ UNCHANGED extVars

\* faulty variant: the task ends without the final Flush
TaskFlushSkipped ==
    /\ pc = "flush"
    /\ pc' = "close"
    /\ UNCHANGED <<registered, cfg, ctxDone, fclosed, done, cur, nread, spc, sfound, fed>>
    /\ UNCHANGED mergVars
    /\ UNCHANGED partVars
    /\ UNCHANGED repVars
    /\ UNCHANGED failed
    /\ UNCHANGED extVars

\* merger.Flush() after the read loop
TaskFlush ==
    /\ pc = "flush"
    /\ mu = "free"
    /\ IF merger.hasData
       THEN /\ sending' = [msg |-> FlushMsg(merger), idx |-> bufIdx, seed |-> FALSE,
                            by |-> "flush"]
            /\ merger' = FlushReset(merger)
            /\ bufIdx' = <<>>
            /\ mu' = "task"
            /\ pc' = "flushsend"
       ELSE /\ pc' = "close"
            /\ UNCHANGED <<sending, merger, bufIdx, mu>>
    /\ UNCHANGED <<registered, cfg, ctxDone, fclosed, done, cur, nread, spc, sfound,
                   fed, pendingCb, sent>>
    /\ UNCHANGED partVars
    /\ UNCHANGED repVars
    /\ UNCHANGED failed
    /\ UNCHANGED extVars

\* the deferred f.Close() and close(lc.done)
TaskClose ==
    /\ pc = "close"
    /\ fclosed' = TRUE
    /\ done' = TRUE
    /\ pc' = "done"
    /\ UNCHANGED <<registered, cfg, ctxDone, cur, nread, spc, sfound, fed>>
    /\ UNCHANGED mergVars
    /\ UNCHANGED partVars
    /\ UNCHANGED repVars
    /\ UNCHANGED failed
    /\ UNCHANGED extVars

----------------------------------------------------------------------------
(* Flush timer and journal send *)

\* the timer armed by resetTimerLocked expires: its callback starts
TimerFire ==
    /\ merger.timer = "armed"
    /\ merger' = [merger EXCEPT !.timer = "expired"]
    /\ pendingCb' = pendingCb + 1
    /\ UNCHANGED <<registered, cfg, ctxDone, fclosed, done, pc, cur, nread, spc,
                   sfound, fed, mu, sending, sent, bufIdx>>
    /\ UNCHANGED partVars
    /\ UNCHANGED repVars
    /\ UNCHANGED failed
    /\ UNCHANGED extVars

\* the callback takes the lock and runs flushLocked
TimerCallback ==
    /\ pendingCb > 0
    /\ mu = "free"
    /\ pendingCb' = pendingCb - 1
    /\ IF merger.hasData
       THEN /\ sending' = [msg |-> FlushMsg(merger), idx |-> bufIdx, seed |-> FALSE,
                            by |-> "timer"]
            /\ merger' = FlushReset(merger)
            /\ bufIdx' = <<>>
            /\ mu' = "timer"
       ELSE UNCHANGED <<sending, merger, bufIdx, mu>>
    /\ UNCHANGED <<registered, cfg, ctxDone, fclosed, done, pc, cur, nread, spc,
                   sfound, fed, sent>>
    /\ UNCHANGED partVars
    /\ UNCHANGED repVars
    /\ UNCHANGED failed
    /\ UNCHANGED extVars

\* the merger's output callback returns to its caller, which goes on: the
\* timer callback releases the lock, AddLine seeds the new buffer
OutputReturns ==
    /\ sending # NoMsg
    /\ sent' = Append(sent, [msg |-> sending.msg, idx |-> sending.idx,
                             by |-> sending.by])
    /\ sending' = NoMsg
    /\ IF mu = "timer"
       THEN /\ mu' = "free"
            /\ UNCHANGED <<merger, bufIdx, pc>>
       ELSE /\ IF sending.seed
               THEN /\ merger' = StartBuffer(merger, cur.line, cur.source, cur.timeNano)
                    /\ bufIdx' = <<Len(fed)>>
               ELSE UNCHANGED <<merger, bufIdx>>
            /\ mu' = "free"
            /\ pc' = IF pc = "flushsend" THEN "close" ELSE "read"
    /\ UNCHANGED <<registered, cfg, ctxDone, fclosed, done, cur, nread, spc, sfound,
                   fed, pendingCb>>
    /\ UNCHANGED partVars
    /\ UNCHANGED extVars

\* lc.writer.Write returns nil
SendReturn ==
    /\ OutputReturns
    /\ UNCHANGED repVars
    /\ UNCHANGED failed

\* faulty variant: a send that failed is made again
SendFailsRetries ==
    /\ sending # NoMsg
    /\ Len(sent) < 2 * MaxRecords
    /\ sent' = Append(sent, [msg |-> sending.msg, idx |-> sending.idx,
                             by |-> sending.by])
    /\ failed' = failed \cup {Len(sent) + 1}
    /\ LET r == LogError(lastErrLog, suppressedErrs, now, "journal")
       IN /\ lastErrLog' = r.lastErrLog
          /\ suppressedErrs' = r.suppressedErrs
          /\ reports' = Append(reports, r.report)
          /\ now' = now
    /\ UNCHANGED <<registered, cfg, ctxDone, fclosed, done, pc, cur, nread, spc, sfound,
                   fed, pendingCb, sending, merger, mu, bufIdx>>
    /\ UNCHANGED partVars
    /\ UNCHANGED extVars

\* lc.writer.Write returns an error: logError, and the callback returns
SendFails ==
    /\ OutputReturns
    /\ failed' = failed \cup {Len(sent) + 1}
    /\ LET r == LogError(lastErrLog, suppressedErrs, now, "journal")
       IN /\ lastErrLog' = r.lastErrLog
          /\ suppressedErrs' = r.suppressedErrs
          /\ reports' = Append(reports, r.report)
          /\ now' = now

----------------------------------------------------------------------------

Next ==
    \/ BeginStream
    \/ \E s \in Stoppers : StopLookup(s)
    \/ \E s \in Stoppers : StopCancel(s)
    \/ \E s \in Stoppers : StopWait(s)
    \/ CancelWatcher
    \/ TaskRead
    \/ TaskReadEOF
    \/ TaskReadError
    \/ TaskReadClosed
    \/ TaskAddLine
    \/ TaskFlush
    \/ TaskClose
    \/ TimerFire
    \/ TimerCallback
    \/ SendReturn

Spec == Init /\ [][Next]_vars

----------------------------------------------------------------------------
(* Properties of the pipeline, checked under Spec *)

Iota(n) == [i \in 1..n |-> i]

\* the messages passed to m.output so far, the one in flight included
Emitted == IF sending = NoMsg THEN sent
           ELSE Append(sent, [msg |-> sending.msg, idx |-> sending.idx,
                              by |-> sending.by])

IdxOf(msgs) == Flatten([k \in 1..Len(msgs) |-> msgs[k].idx])

LinesOf(idx) == [i \in 1..Len(idx) |-> fed[idx[i]].line]

\* the line AddLine still holds while its flush is in the journal send
HeldByAddLine == IF sending # NoMsg /\ sending.seed THEN <<Len(fed)>> ELSE <<>>

StrictlyIncreasing(q) == \A i, j \in 1..Len(q) : i < j => q[i] < q[j]

\* C1: an EndStream call that found the registry entry has returned only if
\* the task has closed lc.done, and then the merger buffer is empty, no send
\* is in flight and every line fed to the merger is in a message handed to
\* the journal sink.
C1_StopReturnsAfterDrain ==
    \A s \in Stoppers :
        (spc[s] = "returned" /\ sfound[s]) =>
            /\ done
            /\ pc = "done"
            /\ ~merger.hasData
            /\ merger.buf = <<>>
            /\ sending = NoMsg
            /\ IdxOf(sent) = Iota(Len(fed))

\* C1 witness: EndStream returned for a registered pipeline whose last
\* message was emitted by the final Flush.
C1_Witness ==
    \E s \in Stoppers :
        /\ spc[s] = "returned" /\ sfound[s]
        /\ Len(sent) >= 1
        /\ sent[Len(sent)].by = "flush"

\* C2: journal sends happen in producer order: across the messages sent, the
\* message in flight and the buffer, the lines appear in the order in which
\* they were fed, so a message holding an earlier line is never sent after a
\* message holding a later line.
C2_SendsInProducerOrder ==
    StrictlyIncreasing(IdxOf(Emitted) \o bufIdx \o HeldByAddLine)

\* C2 witness: three lines went out in two messages, the first one flushed
\* by the timer.
C2_Witness ==
    /\ Len(sent) >= 2
    /\ sent[1].by = "timer"
    /\ Len(IdxOf(sent)) >= 3

\* C3: with merging enabled every fed line is in exactly one place (a sent
\* message, the message in flight, the buffer, or AddLine's hand), in arrival
\* order; each message body is its lines joined by the separator; after the
\* final Flush every line is in a sent message.
C3_NoLineLostOrDuplicated ==
    cfg.enabled =>
        /\ IdxOf(Emitted) \o bufIdx \o HeldByAddLine
             = Iota(Len(fed))
        /\ \A k \in 1..Len(Emitted) :
              Emitted[k].msg.Line = Join(LinesOf(Emitted[k].idx), MultilineSep)
        /\ merger.buf = Join(LinesOf(bufIdx), MultilineSep)
        /\ pc \in {"close", "done"} => IdxOf(sent) = Iota(Len(fed))

\* C3 witness: the task is over, a merged message of two lines and another
\* message were sent.
C3_Witness ==
    /\ cfg.enabled
    /\ pc = "done"
    /\ Len(sent) >= 2
    /\ \E k \in 1..Len(sent) : Len(sent[k].idx) >= 2

C4_EmittedWithinCaps ==
    \A k \in 1..Len(Emitted) :
        LET e == Emitted[k]
        IN \/ Len(e.idx) = 1
           \/ /\ \A i \in 2..Len(e.idx) : IsContinuation(fed[e.idx[i]].line)
              /\ Len(e.idx) <= MultilineMaxLines
              /\ Len(e.msg.Line) <= MultilineMaxBytes

C4_ContinuationStep ==
    /\ (/\ pc = "addline" /\ pc' # "addline"
        /\ cfg.enabled /\ merger.hasData /\ IsContinuation(cur.line))
       => IF /\ Len(merger.buf) + Len(MultilineSep) + Len(cur.line) <= MultilineMaxBytes
             /\ merger.lineCount < MultilineMaxLines
          THEN /\ merger'.buf = merger.buf \o MultilineSep \o cur.line
               /\ merger'.lineCount = merger.lineCount + 1
               /\ sending' = NoMsg
          ELSE /\ sending' # NoMsg
               /\ sending'.msg.Line = merger.buf
               /\ sending'.seed
               /\ merger'.buf = <<>>
    /\ (sending # NoMsg /\ sending.seed /\ sending' = NoMsg)
       => /\ merger'.buf = cur.line
          /\ merger'.lineCount = 1
          /\ merger'.hasData

\* C4: every emitted message is a single line, or all its lines after the
\* first matched the continuation regex, it has at most max_lines lines and at
\* most max_bytes bytes; a continuation arriving on a buffer with data is
\* appended when the result fits (a body of exactly max_bytes included) and
\* line_count is below max_lines, and otherwise the buffer is emitted and
\* then reseeded with the continuation.
C4_CapsRespected == [](C4_EmittedWithinCaps) /\ [][C4_ContinuationStep]_vars

\* C4 witness: a sent message of two lines whose body is exactly max_bytes.
C4_Witness ==
    \E k \in 1..Len(sent) :
        /\ Len(sent[k].idx) = 2
        /\ Len(sent[k].msg.Line) = MultilineMaxBytes

\* C5: every emitted message carries the source and time_nano of its first
\* contributing line.
C5_FirstLineStamp ==
    \A k \in 1..Len(Emitted) :
        LET e == Emitted[k]
        IN /\ e.msg.Source = fed[e.idx[1]].source
           /\ e.msg.TimeNano = fed[e.idx[1]].timeNano

\* C5 witness: a merged message whose continuation line came from another
\* source than its first line, emitted by the timer, before a message emitted
\* by the final Flush.
C5_Witness ==
    \E k \in 1..Len(sent) :
        /\ Len(sent[k].idx) >= 2
        /\ fed[sent[k].idx[2]].source # fed[sent[k].idx[1]].source
        /\ sent[k].by = "timer"
        /\ sent[Len(sent)].by = "flush"

\* C7: with the continuation regex disabled every line given to AddLine goes
\* straight to output as its own message with that line's bytes, source and
\* time_nano; the merger state is never touched and no timer is armed.
C7_DisabledPassThrough ==
    ~cfg.enabled =>
        /\ merger = NewMerger
        /\ pendingCb = 0
        /\ mu = "free"
        /\ Len(Emitted) = Len(fed)
        /\ \A k \in 1..Len(Emitted) :
              /\ Emitted[k].idx = <<k>>
              /\ Emitted[k].msg = [Line |-> fed[k].line, Source |-> fed[k].source,
                                   TimeNano |-> fed[k].timeNano]

\* C7 witness: with merging disabled a continuation-looking line was sent as
\* the second of two messages.
C7_Witness ==
    /\ ~cfg.enabled
    /\ Len(sent) >= 2
    /\ IsContinuation(fed[2].line)
    /\ ~IsContinuation(fed[1].line)

----------------------------------------------------------------------------
(* Liveness of the flush timer *)

\* The Go runtime fires an armed timer and runs its callback, sync.Mutex
\* hands the lock to a waiting callback once it is free, and a journal send
\* returns.  Nothing is assumed of the producer or of the processing task: it
\* may wait in the read for ever.
\* EndStream is left out: cancellation only adds a way to reach the final
\* Flush, and the property is about a buffer nobody flushes.
LiveNext ==
    \/ BeginStream
    \/ TaskRead
    \/ TaskReadEOF
    \/ TaskReadError
    \/ TaskAddLine
    \/ TaskFlush
    \/ TaskClose
    \/ TimerFire
    \/ TimerCallback
    \/ SendReturn

LiveSpec ==
    /\ Init
    /\ [][LiveNext]_vars
    /\ WF_vars(TimerFire)
    /\ WF_vars(TimerCallback)
    /\ WF_vars(SendReturn)

InSent(i) == \E k \in 1..Len(sent) : \E j \in 1..Len(sent[k].idx) : sent[k].idx[j] = i

InBuffer(i) == \E j \in 1..Len(bufIdx) : bufIdx[j] = i

\* C6: a line that sits in the merger buffer is eventually in a message sent
\* to the journal, whether or not another AddLine or Flush ever comes.
C6_BufferEventuallySent ==
    \A i \in 1..MaxRecords : InBuffer(i) ~> InSent(i)

\* C6 witness: the timer emitted a message while the task was waiting in the
\* read for the next record.
C6_Witness ==
    /\ pc = "read"
    /\ Len(sent) >= 1
    /\ sent[Len(sent)].by = "timer"
    /\ Len(sent[Len(sent)].idx) >= 2
    /\ ~merger.hasData

----------------------------------------------------------------------------
(* The reassembler alone: any sequence of Add calls *)

\* one byte per call, so that every fragment's bytes tell when it arrived
ByteAt(t) == IF t = 1 THEN "a" ELSE IF t = 2 THEN "b" ELSE IF t = 3 THEN "c"
             ELSE IF t = 4 THEN "d" ELSE IF t = 5 THEN "e" ELSE "f"

\* the records of the t-th Add call: fragments of group "g" with any ordinal
\* and last flag from either source, fragments of a second group "h", a
\* complete line, and a record flagged partial that carries no metadata
AddEntries(t) ==
    {Fragment(src, t, <<ByteAt(t)>>, "g", o, last) :
         src \in Sources, o \in 1..2, last \in BOOLEAN}
    \cup {Fragment("stdout", t, <<ByteAt(t)>>, "h", 1, last) : last \in BOOLEAN}
    \cup {FullEntry("stdout", t, <<ByteAt(t)>>)}
    \cup {[Source |-> "stderr", TimeNano |-> t, Line |-> <<ByteAt(t)>>,
           Partial |-> TRUE, PartialLogMetadata |-> NoMeta]}

\* partial.Add(&entry) called on a fresh assembler, record after record
PartialAdd ==
    /\ pc = "init"
    /\ Len(arrived) < MaxAdds
    /\ \E e \in AddEntries(Len(arrived) + 1) :
          LET r == Add(groups, e)
          IN /\ groups' = r.groups
             /\ arrived' = Append(arrived, e)
             /\ produced' = IF IsFragment(e) /\ r.complete
                            THEN Append(produced,
                                   [at |-> Len(arrived) + 1, line |-> r.line,
                                    source |-> r.source, timeNano |-> r.timeNano])
                            ELSE produced
             /\ cur' = IF r.complete
                       THEN [line |-> r.line, source |-> r.source,
                             timeNano |-> r.timeNano]
                       ELSE cur
    /\ UNCHANGED <<registered, cfg, ctxDone, fclosed, done, pc, nread, spc,
                   sfound, fed>>
    /\ UNCHANGED mergVars
    /\ UNCHANGED repVars
    /\ UNCHANGED failed
    /\ UNCHANGED extVars

SpecPartial == Init /\ [][PartialAdd]_vars

\* positions in arrived of the fragments with this id
FragsOf(id) ==
    {j \in 1..Len(arrived) :
        IsFragment(arrived[j]) /\ arrived[j].PartialLogMetadata.ID = id}

LastsOf(id) == {j \in FragsOf(id) : arrived[j].PartialLogMetadata.Last}

\* positions of the fragments that were in the table's group for the id of
\* arrived[c] when call c was made, that call included: those that arrived
\* after the previous fragment of the id flagged last
GroupAt(c) ==
    LET id == arrived[c].PartialLogMetadata.ID
        before == {j \in LastsOf(id) : j < c}
    IN {j \in FragsOf(id) : j <= c /\ \A b \in before : j > b}

OrdinalAt(j) == arrived[j].PartialLogMetadata.Ordinal

\* the concatenations of the fragments at positions S in ascending ordinal
\* order (fragments with equal ordinals in either order)
RECURSIVE AscendingConcats(_)
AscendingConcats(S) ==
    IF S = {} THEN {<<>>}
    ELSE UNION { {arrived[j].Line \o rest : rest \in AscendingConcats(S \ {j})} :
                 j \in {x \in S : \A y \in S : OrdinalAt(x) <= OrdinalAt(y)} }

MinPos(S) == CHOOSE j \in S : \A k \in S : j <= k

\* of the fragments at positions S the one with the lowest ordinal (the
\* earliest of them if several share it)
LowestOrdinalPos(S) ==
    MinPos({x \in S : \A y \in S : OrdinalAt(x) <= OrdinalAt(y)})

\* C8 as amended: a ReassembledLine is produced exactly by the Add calls that
\* receive a fragment flagged last, one per such call, and its bytes are the
\* fragments of that id that arrived since the previous last-flagged fragment
\* of the id, concatenated in ascending ordinal order; nothing else is in it.
C8_AssembledFromArrivedFragments ==
    /\ Len(produced) = Cardinality({j \in 1..Len(arrived) :
                            IsFragment(arrived[j]) /\ arrived[j].PartialLogMetadata.Last})
    /\ \A k \in 1..Len(produced) :
          /\ IsFragment(arrived[produced[k].at])
          /\ arrived[produced[k].at].PartialLogMetadata.Last
          /\ \A k2 \in 1..Len(produced) : k < k2 => produced[k].at < produced[k2].at
          /\ produced[k].line \in AscendingConcats(GroupAt(produced[k].at))

\* C8 witness: a group of three fragments that arrived out of ordinal order,
\* with a fragment of another group in between, was assembled.
C8_Witness ==
    \E k \in 1..Len(produced) :
        LET G == GroupAt(produced[k].at)
        IN /\ Cardinality(G) >= 2
           /\ \E i, j \in G : i < j /\ OrdinalAt(i) > OrdinalAt(j)
           /\ \E x \in 1..Len(arrived) :
                 /\ IsFragment(arrived[x])
                 /\ x \notin FragsOf(arrived[produced[k].at].PartialLogMetadata.ID)
                 /\ MinPos(G) < x /\ x < produced[k].at

\* C8 as claimed: for a group (the fragments sharing an id, one of them
\* flagged last) and every arrival order, once the fragment flagged last has
\* arrived exactly one line was produced and it holds all the group's
\* fragments in ascending ordinal order.
C8_Original ==
    \A id \in {"g", "h"} :
        Cardinality(LastsOf(id)) = 1 =>
            LET ps == {k \in 1..Len(produced) :
                          arrived[produced[k].at].PartialLogMetadata.ID = id}
            IN /\ Cardinality(ps) = 1
               /\ \A k \in ps : produced[k].line \in AscendingConcats(FragsOf(id))

\* C9: the ReassembledLine of a group carries the source and time_nano of the
\* group's first-arrived fragment.
C9_StampOfFirstArrived ==
    \A k \in 1..Len(produced) :
        LET first == MinPos(GroupAt(produced[k].at))
        IN /\ produced[k].source = arrived[first].Source
           /\ produced[k].timeNano = arrived[first].TimeNano

\* C9 witness: a line was assembled whose first-arrived fragment has neither
\* the lowest ordinal nor the source of the last fragment.
C9_Witness ==
    \E k \in 1..Len(produced) :
        LET G == GroupAt(produced[k].at)
            first == MinPos(G)
        IN /\ Cardinality(G) >= 2
           /\ first # LowestOrdinalPos(G)
           /\ arrived[first].Source # arrived[produced[k].at].Source
           /\ arrived[first].Source # arrived[LowestOrdinalPos(G)].Source

----------------------------------------------------------------------------
(* Records that are not fragments *)

C11_NonPartialStep ==
    (Len(arrived') = Len(arrived) + 1 /\ ~IsFragment(arrived'[Len(arrived')]))
    => LET e == arrived'[Len(arrived')]
       IN /\ groups' = groups
          /\ produced' = produced
          /\ cur' = [line |-> e.Line, source |-> e.Source, timeNano |-> e.TimeNano]

\* C11: an Add call on a record that is not partial, or that is flagged
\* partial but carries no partial metadata, returns complete with exactly the
\* record's bytes, source and time_nano and leaves the table of pending
\* groups as it was.
C11_AsIsLeavesTable == [][C11_NonPartialStep]_vars

\* C11 witness: with a group pending in the table, a complete record and a
\* record flagged partial without metadata were both returned as they came.
C11_Witness ==
    /\ Len(arrived) >= 3
    /\ DOMAIN groups # {}
    /\ \E j \in 2..(Len(arrived) - 1) : ~arrived[j].Partial /\ FragsOf("g") \cap 1..(j-1) # {}
    /\ LET e == arrived[Len(arrived)]
       IN /\ e.Partial /\ e.PartialLogMetadata = NoMeta
          /\ cur = [line |-> e.Line, source |-> e.Source, timeNano |-> e.TimeNano]

----------------------------------------------------------------------------
(* A journal that may refuse a message *)

\* The pipeline of LiveNext with a journal whose sends may fail.
SendNext ==
    \/ LiveNext
    \/ SendFails

SpecSend == Init /\ [][SendNext]_vars

JournalReports == {j \in 1..Len(reports) : reports[j].kind = "journal"}

C12_EachMessageOnce ==
    /\ StrictlyIncreasing(IdxOf(Emitted))
    /\ failed \subseteq 1..Len(sent)
    /\ Cardinality(JournalReports) = Cardinality(failed)
    /\ pc = "done" => (sending = NoMsg /\ IdxOf(sent) = Iota(Len(fed)))

C12_SendStep ==
    IF sending = NoMsg
    THEN sent' = sent
    ELSE \/ sending' = sending /\ sent' = sent
         \/ /\ sending' = NoMsg
            /\ sent' = Append(sent, [msg |-> sending.msg, idx |-> sending.idx,
                                     by |-> sending.by])

\* C12: every message the merger hands to its output callback is sent to the
\* journal exactly once, when the callback runs, and nothing else is sent; a
\* send that fails is reported through logError and is not made again, and
\* the pipeline goes on: when the task is over every line fed to the merger
\* is in a sent message, whichever sends failed.
C12_SendsEqualMerged == [](C12_EachMessageOnce) /\ [][C12_SendStep]_vars

\* C12 witness: the first send failed, a later one succeeded, and the task
\* ended with three lines sent.
C12_Witness ==
    /\ pc = "done"
    /\ 1 \in failed
    /\ \E k \in 2..Len(sent) : k \notin failed
    /\ Len(fed) = 3

----------------------------------------------------------------------------
(* How the processing task ends *)

DecodeReports == {j \in 1..Len(reports) : reports[j].kind = "decode"}

\* once the completion signal is closed the task has ended, the merger
\* buffer is empty and no send is in flight; at most one decode error is
\* reported
C13_DrainedWhenDone ==
    /\ done => /\ pc = "done"
               /\ ~merger.hasData
               /\ merger.buf = <<>>
               /\ bufIdx = <<>>
               /\ sending = NoMsg
    /\ Cardinality(DecodeReports) <= 1
    /\ DecodeReports # {} => pc \in {"flush", "flushsend", "close", "done"}

\* the step that ends the read loop: EOF reports nothing, a decode error
\* met after cancellation reports nothing, a decode error met before it
\* reports once, and the final Flush comes next in every case
C13_EndStep ==
    (pc = "read" /\ pc' # "read" /\ pc' # "addline")
    => /\ pc' = "flush"
       /\ TaskReadEOF => reports' = reports
       /\ ctxDone => reports' = reports
       /\ (~TaskReadEOF /\ ~ctxDone)
             => /\ Len(reports') = Len(reports) + 1
                /\ reports'[Len(reports')].kind = "decode"

\* C13: however the read loop ended (producer EOF, decode error, cancellation)
\* the completion signal is closed only after the final Flush, so once it is
\* closed the merger buffer is empty and no send is in flight; a decode error
\* met while the context is not cancelled is reported through logError, once,
\* and EOF and a read that fails after cancellation are not reported.
C13_FlushBeforeDone == [](C13_DrainedWhenDone) /\ [][C13_EndStep]_vars

\* C13 witness: a decode error ended the task while a message was buffered;
\* the error was reported, the final Flush sent the message and the
\* completion signal is closed.
C13_Witness ==
    /\ done
    /\ Len(reports) = 1 /\ reports[1].kind = "decode" /\ reports[1].printed
    /\ Len(sent) >= 1
    /\ sent[Len(sent)].by = "flush"

----------------------------------------------------------------------------
(* StartLogging requests with any options *)

\* handleStartLogging for a request with these options: ParseConfig,
\* newJournalWriter, fifo.OpenFifo (which may fail), registration, start of
\* the task, reply
HandleStartLogging(opts) ==
    /\ pc = "init"
    /\ Len(answers) < MaxRequests
    /\ \/ /\ ParseConfigErrs(opts) # {}
          /\ \E e \in ParseConfigErrs(opts) :
                answers' = Append(answers, [opts |-> opts, err |-> e])
          /\ UNCHANGED <<registered, cfg, pc, opened>>
       \/ /\ ParseConfigErrs(opts) = {}
          /\ RenderTagErr(Opt(opts, "tag")) # ""
          /\ answers' = Append(answers, [opts |-> opts,
                                         err |-> RenderTagErr(Opt(opts, "tag"))])
          /\ UNCHANGED <<registered, cfg, pc, opened>>
       \/ /\ ParseConfigErrs(opts) = {}
          /\ RenderTagErr(Opt(opts, "tag")) = ""
          /\ answers' = Append(answers, [opts |-> opts, err |-> "opening fifo"])
          /\ UNCHANGED <<registered, cfg, pc, opened>>
       \/ /\ ParseConfigErrs(opts) = {}
          /\ RenderTagErr(Opt(opts, "tag")) = ""
          /\ opened' = TRUE
          /\ cfg' = [enabled |-> MultilineEnabled(opts)]
          /\ registered' = TRUE
          /\ pc' = "read"
          /\ answers' = Append(answers, [opts |-> opts, err |-> ""])
    /\ UNCHANGED <<ctxDone, fclosed, done, cur, nread, spc, sfound, fed, detected,
                   written, probe>>
    /\ UNCHANGED supVars
    /\ UNCHANGED mergVars
    /\ UNCHANGED partVars
    /\ UNCHANGED repVars
    /\ UNCHANGED failed

StartRequest == \E opts \in OptionMaps : HandleStartLogging(opts)

SpecBegin == Init /\ [][StartRequest]_vars

\* an option key that is not known and does not start with field-
HasUnknownKey(opts) == \E k \in DOMAIN opts : k \notin knownOpts /\ ~HasFieldPrefix(k)

RegexOpts ==
    {"labels-regex", "env-regex", "multiline-regex", "strip-timestamp-regex"}
    \cup {matchKeys[i].opt : i \in 1..Len(matchKeys)}

BoolOpts == {"priority-prefix", "strip-timestamp", "parse-json"}

\* a value that the rules for its key do not allow: a regex that does not
\* compile, a duration or a count that does not parse or is not positive, a
\* boolean or a severity name that does not parse, a field extractor without
\* a name, a pattern or a capture group
HasInvalidValue(opts) ==
    \E k \in DOMAIN opts :
        \/ k \in RegexOpts /\ ~RegexCompiles(opts[k])
        \/ k = "multiline-timeout"
             /\ (~ParseDuration(opts[k]).ok \/ ParseDuration(opts[k]).d <= 0)
        \/ k \in {"multiline-max-lines", "multiline-max-bytes"}
             /\ (~Atoi(opts[k]).ok \/ Atoi(opts[k]).n <= 0)
        \/ k \in BoolOpts /\ ~ParseBool(opts[k]).ok
        \/ k \in {"priority-default-stdout", "priority-default-stderr"}
             /\ ~PriorityNameKnown(opts[k])
        \/ HasFieldPrefix(k) /\ FieldError(k, opts[k]) # ""

\* the tag template does not compile or does not execute
TagFails(opts) == Opt(opts, "tag") \in {"{{", "{{.Nope}}"}

\* the request left nothing behind: no stream opened, no registry entry, no task
NoEffect == ~opened /\ ~registered /\ pc = "init"

\* C14 as claimed: a request whose options hold an unknown key or an invalid
\* value, or whose tag template fails, is answered with a non-empty error
\* string and has no other effect: the producer stream is not opened, the
\* registry is unchanged and no task is started.
C14_Original ==
    \A i \in 1..Len(answers) :
        (HasUnknownKey(answers[i].opts) \/ HasInvalidValue(answers[i].opts)
           \/ TagFails(answers[i].opts))
        => /\ answers[i].err # ""
           /\ i = Len(answers) => NoEffect

\* C14, what the code does: every request that ParseConfig or renderTag
\* rejects is answered with an error and has no other effect, and so is every
\* request with an unknown key, a failing tag, or an invalid value other than
\* a strip-timestamp-regex that does not compile while strip-timestamp is
\* not on.
C14_RejectedWithoutEffect ==
    \A i \in 1..Len(answers) :
        /\ answers[i].err # "" => (i = Len(answers) => NoEffect)
        /\ (HasUnknownKey(answers[i].opts) \/ TagFails(answers[i].opts)
            \/ HasInvalidValue([k \in DOMAIN answers[i].opts
                                     \ (IF StripTimestampOn(answers[i].opts)
                                        THEN {} ELSE {"strip-timestamp-regex"})
                                  |-> answers[i].opts[k]]))
           => answers[i].err # ""

\* C14 witness: after a request rejected for an unknown key, a request whose
\* only option is a strip-timestamp-regex that does not compile was answered
\* with success and its pipeline was started.
C14_Witness ==
    /\ Len(answers) = 2
    /\ HasUnknownKey(answers[1].opts) /\ answers[1].err # ""
    /\ answers[2].opts = OneOpt("strip-timestamp-regex", "[")
    /\ answers[2].err = ""
    /\ opened /\ registered /\ pc = "read"

----------------------------------------------------------------------------
(* EndStream for a path without a registry entry *)

\* everything but the position and the finding of the EndStream calls
pipelineVars ==
    <<registered, cfg, ctxDone, fclosed, done, pc, cur, nread, groups, merger, mu,
      pendingCb, sending, fed, sent, bufIdx, arrived, produced, now, lastErrLog,
      suppressedErrs, reports, failed, answers, opened, detected, written,
      consumers, tasks, stopping, probe>>

C15_LookupStep ==
    \A s \in Stoppers :
        (spc[s] = "idle" /\ spc'[s] # "idle" /\ ~registered)
        => /\ spc'[s] = "returned"
           /\ ~sfound'[s]
           /\ \A t \in Stoppers \ {s} : spc'[t] = spc[t] /\ sfound'[t] = sfound[t]
           /\ pipelineVars' = pipelineVars

C15_FoundOnce ==
    /\ \A s, t \in Stoppers : (sfound[s] /\ sfound[t]) => s = t
    /\ (\E s \in Stoppers : sfound[s]) => ~registered
    /\ \A s \in Stoppers : ~sfound[s] => spc[s] \in {"idle", "returned"}

\* C15: an EndStream call that finds no registry entry for its path returns
\* success at once and changes nothing: the registry and the pipeline are as
\* they were.  The entry is found by one call only, so of two calls for the
\* same path the second finds none and has no effect.
C15_StopUnknownNoEffect == [](C15_FoundOnce) /\ [][C15_LookupStep]_vars

\* C15 witness: one EndStream call found the entry and is waiting for the
\* pipeline, which still has a message buffered; the other call found no
\* entry and has returned.
C15_Witness ==
    \E s, t \in Stoppers :
        /\ sfound[s] /\ spc[s] = "wait"
        /\ ~sfound[t] /\ spc[t] = "returned"
        /\ pc \in {"read", "addline", "send", "flush"}
        /\ merger.hasData

----------------------------------------------------------------------------
(* DetectPriority on any first line *)

\* the bytes of the lines: the sd-daemon prefix with a digit in and out of
\* range, the words E and W the matchers look for, and the newline
LineBytes == {"<", "3", "8", ">", "E", "W", LF}

LinesUpTo(n) == UNION {[1..k -> LineBytes] : k \in 0..n}

\* matcher lists as ParseConfig builds them, in emerg-to-debug order: none;
\* err and warning in the shape of the defaults; a warning matcher that
\* finds its word anywhere before a debug matcher on the same word; a crit
\* matcher on the byte that opens an sd-daemon prefix
MatcherLists ==
    { <<>>,
      << [Priority |-> PriErr, Regex |-> Lead(2, <<"E">>)],
         [Priority |-> PriWarning, Regex |-> Lead(2, <<"W">>)] >>,
      << [Priority |-> PriWarning, Regex |-> Find(<<"E">>)],
         [Priority |-> PriDebug, Regex |-> Anchored(<<"E">>)] >>,
      << [Priority |-> PriCrit, Regex |-> Anchored(<<"<">>)] >> }

PriorityConfigs ==
    {[PriorityPrefix |-> b, PriorityMatchers |-> ms,
      PriorityDefaultStdout |-> d[1], PriorityDefaultStderr |-> d[2]] :
        b \in BOOLEAN, ms \in MatcherLists,
        d \in {<<PriInfo, PriErr>>, <<PriDebug, PriNotice>>}}

\* DetectPriority(cfg, firstLine, source) called once on any configuration,
\* line and source
DetectCall ==
    /\ pc = "init"
    /\ ~detected.called
    /\ \E c \in PriorityConfigs, line \in LinesUpTo(MaxLineLen),
          source \in {"stdout", "stderr", "other"} :
          LET r == DetectPriority(c, line, source)
          IN detected' = [called |-> TRUE, cfg |-> c, firstLine |-> line,
                          source |-> source, pri |-> r.pri, line |-> r.line]
    /\ UNCHANGED <<registered, cfg, ctxDone, fclosed, done, pc, cur, nread, spc,
                   sfound, fed, failed, answers, opened, written, probe>>
    /\ UNCHANGED supVars
    /\ UNCHANGED mergVars
    /\ UNCHANGED partVars
    /\ UNCHANGED repVars

SpecPriority == Init /\ [][DetectCall]_vars

\* the matchers of the call that match its line
MatchingIn(d) ==
    {i \in 1..Len(d.cfg.PriorityMatchers) :
        Match(d.cfg.PriorityMatchers[i].Regex, d.firstLine)}

\* C16: DetectPriority resolves severity by first match: (1) with the prefix
\* enabled and a line starting <N>, N one digit 0..7, severity N and the line
\* without those 3 bytes, whether or not a matcher matches; (2) otherwise the
\* matching matcher that comes first in emerg-to-debug order, line unchanged;
\* (3) otherwise the stderr default for source stderr and the stdout default
\* for any other source, line unchanged.
C16_FirstMatchOrder ==
    detected.called =>
        LET d == detected
            l == d.firstLine
        IN IF /\ d.cfg.PriorityPrefix
              /\ Len(l) >= 3 /\ l[1] = "<" /\ l[2] \in OctalDigits /\ l[3] = ">"
           THEN /\ d.pri = DigitValue(l[2])
                /\ d.line = Tail(Tail(Tail(l)))
           ELSE IF MatchingIn(d) # {}
           THEN /\ \E i \in MatchingIn(d) :
                      /\ d.pri = d.cfg.PriorityMatchers[i].Priority
                      /\ \A j \in MatchingIn(d) :
                            d.cfg.PriorityMatchers[i].Priority
                              <= d.cfg.PriorityMatchers[j].Priority
                /\ d.line = l
           ELSE /\ d.pri = IF d.source = "stderr" THEN d.cfg.PriorityDefaultStderr
                           ELSE d.cfg.PriorityDefaultStdout
                /\ d.line = l

\* C16 witness: with the prefix enabled, a line <3>E on which a matcher of
\* another severity matches too gave severity 3 and the line E.
C16_Witness ==
    /\ detected.called
    /\ detected.cfg.PriorityPrefix
    /\ detected.firstLine = <<"<", "3", ">", "E">>
    /\ MatchingIn(detected) # {}
    /\ detected.pri = PriErr
    /\ detected.line = <<"E">>
    /\ \A i \in MatchingIn(detected) :
          detected.cfg.PriorityMatchers[i].Priority # PriErr

----------------------------------------------------------------------------
(* The merger's output callback on any merged message *)

\* configurations of a consumer: JSON extraction, timestamp stripping and
\* the sd-daemon prefix on or off; matchers in the shape of the defaults or
\* one that finds its word anywhere; no field extractor or one for =(.)
OutputConfigs ==
    {[ParseJSON |-> j,
      JSONLevelKeys |-> <<KeyLevel, KeySeverity>>,
      JSONMessageKeys |-> <<KeyMessage, KeyMsg>>,
      StripTimestamp |-> st,
      StripTimestampPatterns |-> <<Anchored(<<"T">>)>>,
      PriorityPrefix |-> b,
      PriorityMatchers |-> ms,
      PriorityDefaultStdout |-> PriInfo,
      PriorityDefaultStderr |-> PriErr,
      FieldExtractors |-> fe] :
        j \in BOOLEAN, st \in BOOLEAN, b \in BOOLEAN,
        ms \in { << [Priority |-> PriCrit, Regex |-> Lead(2, <<"E">>)] >>,
                 << [Priority |-> PriCrit, Regex |-> Find(<<"E">>)] >> },
        fe \in { <<>>,
                 << [FieldName |-> NameRequestID,
                     Regex |-> [word |-> <<"=">>, capture |-> {"E", "x"}]] >> }}

\* first lines: plain, with the matchers' word, with an sd-daemon prefix,
\* with a timestamp, JSON with a known level, JSON with an unknown level and
\* an extra member, JSON left open, and a line the extractor matches
FirstLines ==
    { <<"x">>, <<"E">>, <<"<", "3", ">", "E">>, <<"T", SP, "E">>,
      <<"{", "L", "M", "}">>, <<"{", "U", "M", "F", "}">>, <<"{", "L", "M">>,
      <<"x", "=", "E">> }

\* first lines with their continuation line: every first line alone (<<>>);
\* an indented line with the matchers' word after a plain line, after a line
\* with that word and after JSON; a closing brace after JSON left open
Continuations ==
    {<<first, <<>> >> : first \in FirstLines}
    \cup { << <<"x">>, <<SP, "E">> >>,
           << <<"E">>, <<SP, "E">> >>,
           << <<"{", "L", "M", "}">>, <<SP, "E">> >>,
           << <<"{", "L", "M">>, <<"}">> >> }

\* the body of a merged message: its lines joined by newlines
Body(first, cont) == IF cont = <<>> THEN first ELSE first \o <<LF>> \o cont

\* the first line of a body
RECURSIVE FirstLineOf(_)
FirstLineOf(body) ==
    IF body = <<>> \/ Head(body) = LF THEN <<>>
    ELSE <<Head(body)>> \o FirstLineOf(Tail(body))

\* consumeLog builds the merger with the output callback for lc.cfg
OutputSetup ==
    /\ pc = "init"
    /\ \E c \in OutputConfigs : cfg' = c
    /\ pc' = "callback"
    /\ UNCHANGED <<registered, ctxDone, fclosed, done, cur, nread, spc, sfound, fed,
                   failed, answers, opened, detected, written, probe>>
    /\ UNCHANGED supVars
    /\ UNCHANGED mergVars
    /\ UNCHANGED partVars
    /\ UNCHANGED repVars

\* the callback runs on a merged message and sendFn receives the record
OutputCall ==
    /\ pc = "callback"
    /\ Len(written) < MaxWrites
    /\ \E lines \in Continuations, source \in {"stdout", "stderr"} :
          LET msg == [Line |-> Body(lines[1], lines[2]), Source |-> source,
                      TimeNano |-> 1000]
              entry == [msg |-> msg, rec |-> OutputCallback(cfg, msg)]
          IN written' = Append(written, entry)
    /\ UNCHANGED <<registered, cfg, ctxDone, fclosed, done, pc, cur, nread, spc, sfound,
                   fed, failed, answers, opened, detected, probe>>
    /\ UNCHANGED supVars
    /\ UNCHANGED mergVars
    /\ UNCHANGED partVars
    /\ UNCHANGED repVars

OutputNext == OutputSetup \/ OutputCall

SpecOutput == Init /\ [][OutputNext]_vars

\* the message the classifier sees when JSON extraction succeeded
Classified(c, message) ==
    IF c.StripTimestamp THEN StripTimestamp(message, c.StripTimestampPatterns)
    ELSE message

\* C17: when JSON extraction succeeds and the level is a known level name
\* (PANIC, which is alert), the record has that severity, also when the
\* message starts with an sd-daemon prefix or a matcher matches it; when the
\* level is absent or unknown, the record has the severity DetectPriority
\* (prefix, matchers, source default) gives for the extracted message.
C17_LevelOverrides ==
    \A i \in 1..Len(written) :
        LET w == written[i]
            p == ParseJSONLog(cfg, w.msg.Line)
        IN p.ok =>
              IF p.Level = "PANIC" THEN w.rec.priority = PriAlert
              ELSE /\ p.Level \in {"", "bogus"}
                   /\ w.rec.priority =
                         DetectPriority(cfg, Classified(cfg, p.Message), w.msg.Source).pri

\* a record made from JSON with a known level whose message has an
\* sd-daemon prefix and the matchers' word, under a configuration with the
\* prefix on; and a record made from JSON with an unknown level
C17_Witness ==
    /\ Len(written) = 2
    /\ cfg.ParseJSON /\ cfg.PriorityPrefix
    /\ written[1].msg.Line = <<"{", "L", "M", "}">>
    /\ written[1].rec.priority = PriAlert
    /\ written[2].msg.Line = <<"{", "U", "M", "F", "}">>
    /\ written[2].rec.priority = PriErr

\* C18 as stated: the severity of a record is the severity the callback
\* gives to the first line of its message alone.
C18_Original ==
    \A i \in 1..Len(written) :
        LET w == written[i]
        IN w.rec.priority =
              OutputCallback(cfg, [w.msg EXCEPT !.Line = FirstLineOf(w.msg.Line)]).priority

\* the patterns that can only match inside the first line
FirstLineOnly(re) == re.kind \in {"anchored", "lead"}

\* C18, the part the code keeps: without JSON extraction and with matchers
\* that are anchored at the start, as the default matchers are, the
\* continuation lines do not change the severity.
C18_AnchoredFirstLine ==
    \A i \in 1..Len(written) :
        LET w == written[i]
        IN (/\ ~cfg.ParseJSON
            /\ \A k \in 1..Len(cfg.PriorityMatchers) :
                  FirstLineOnly(cfg.PriorityMatchers[k].Regex))
           => w.rec.priority =
                 OutputCallback(cfg, [w.msg EXCEPT !.Line = FirstLineOf(w.msg.Line)]).priority

\* a message with a continuation line holding the matchers' word, classified
\* by anchored matchers without JSON extraction
C18_Witness ==
    /\ Len(written) >= 1
    /\ ~cfg.ParseJSON
    /\ \A k \in 1..Len(cfg.PriorityMatchers) : FirstLineOnly(cfg.PriorityMatchers[k].Regex)
    /\ written[1].msg.Line = <<"x", LF, SP, "E">>
    /\ written[1].rec.priority = PriInfo

\* C19 as stated: for every extractor and every record, the record has the
\* extractor's field, valued with the first capture group, exactly when the
\* extractor's regex matches the message of the record.
C19_Original ==
    \A i \in 1..Len(written) : \A k \in 1..Len(cfg.FieldExtractors) :
        LET w == written[i]
            e == cfg.FieldExtractors[k]
        IN ExtractorMatches(e.Regex, w.rec.message)
             <=> /\ e.FieldName \in DOMAIN w.rec.vars
                 /\ w.rec.vars[e.FieldName] = FirstCapture(e.Regex, w.rec.message)

\* C19, the part the code keeps: a record whose message no extractor matches
\* has no extractor's field, whatever the message before it was.
C19_NoFieldWithoutMatch ==
    \A i \in 1..Len(written) : \A k \in 1..Len(cfg.FieldExtractors) :
        LET w == written[i]
            e == cfg.FieldExtractors[k]
        IN ~ExtractorMatches(e.Regex, w.rec.message)
             => e.FieldName \notin DOMAIN w.rec.vars

\* a message the extractor matches followed by one it does not match
C19_Witness ==
    /\ Len(written) = 2
    /\ Len(cfg.FieldExtractors) = 1
    /\ ExtractorMatches(cfg.FieldExtractors[1].Regex, written[1].rec.message)
    /\ ~ExtractorMatches(cfg.FieldExtractors[1].Regex, written[2].rec.message)

----------------------------------------------------------------------------
(* The error reporter on its own *)

\* the clock advances: by a third of a minute, by a second less than a
\* minute, by a minute
Tick ==
    /\ pc = "init"
    /\ \E d \in {20, Minute - 1, Minute} :
          /\ now + d <= MaxTime
          /\ now' = now + d
    /\ UNCHANGED <<registered, cfg, ctxDone, fclosed, done, pc, cur, nread, spc, sfound,
                   fed, failed, lastErrLog, suppressedErrs, reports>>
    /\ UNCHANGED mergVars
    /\ UNCHANGED partVars
    /\ UNCHANGED extVars

\* lc.logError(...) called at the current time
ReportError ==
    /\ pc = "init"
    /\ Len(reports) < MaxReports
    /\ \E kind \in {"journal", "decode"} :
          LET r == LogError(lastErrLog, suppressedErrs, now, kind)
          IN /\ lastErrLog' = r.lastErrLog
             /\ suppressedErrs' = r.suppressedErrs
             /\ reports' = Append(reports, r.report)
    /\ UNCHANGED <<registered, cfg, ctxDone, fclosed, done, pc, cur, nread, spc, sfound,
                   fed, failed, now>>
    /\ UNCHANGED mergVars
    /\ UNCHANGED partVars
    /\ UNCHANGED extVars

ReporterNext == Tick \/ ReportError

SpecReporter == Init /\ [][ReporterNext]_vars

\* the first report is printed, two printed reports are at least a minute
\* apart, and a report less than a minute after a printed one is not printed
C20_OnePerWindow ==
    /\ reports # <<>> => reports[1].printed
    /\ \A i, j \in 1..Len(reports) :
          (i < j /\ reports[i].printed /\ reports[j].at - reports[i].at < Minute)
             => ~reports[j].printed

\* a report that arrives less than a minute after a printed one adds exactly
\* one to the suppressed counter
C20_SuppressedStep ==
    (/\ Len(reports') = Len(reports) + 1
     /\ \E i \in 1..Len(reports) :
           /\ reports[i].printed
           /\ reports'[Len(reports')].at - reports[i].at < Minute)
    => /\ ~reports'[Len(reports')].printed
       /\ suppressedErrs' = suppressedErrs + 1

\* C20: the reporter prints at most one error message per one-minute window:
\* the first report ever is printed, and after a message is printed every
\* report arriving less than 60 seconds later prints nothing and increases
\* the suppressed counter by exactly one.
C20_RateLimited == [](C20_OnePerWindow) /\ [][C20_SuppressedStep]_vars

\* a printed report, one suppressed 59 seconds after it, and one printed 59
\* seconds later still, with the count of suppressed errors before it
C20_Witness ==
    /\ Len(reports) = 3
    /\ reports[1].printed /\ reports[1].at = 0
    /\ ~reports[2].printed /\ reports[2].at = Minute - 1
    /\ reports[3].printed /\ reports[3].at = 2 * Minute - 2 /\ reports[3].summary = 1
    /\ suppressedErrs = 0

----------------------------------------------------------------------------
(* The summary of suppressed errors *)

\* the index of the last printed report, 0 if none was printed
LastPrinted(rs) ==
    IF \E i \in 1..Len(rs) : rs[i].printed
    THEN CHOOSE i \in 1..Len(rs) :
            rs[i].printed /\ \A j \in (i + 1)..Len(rs) : ~rs[j].printed
    ELSE 0

\* the reports suppressed since the last printed one
SuppressedSince(rs) == Len(rs) - LastPrinted(rs)

\* a report arrives a minute or more after the last printed message
C21_ReportStep ==
    (/\ Len(reports') = Len(reports) + 1
     /\ LastPrinted(reports) # 0
     /\ now - reports[LastPrinted(reports)].at >= Minute)
    => LET r == reports'[Len(reports')]
       IN /\ r.printed
          /\ suppressedErrs = SuppressedSince(reports)
          /\ r.summary = SuppressedSince(reports)
          /\ suppressedErrs' = 0

\* C21: when a report arrives 60 seconds or more after the last printed
\* message and the suppressed counter is N, the counter is the number of
\* reports suppressed since that message; for N > 0 a summary carrying N is
\* printed before the new message (summary = N), for N = 0 only the new
\* message is printed (summary = 0), and the counter is 0 afterwards.
C21_SummaryCarriesCount == [][C21_ReportStep]_vars

\* a printed report, two suppressed ones, and a fourth printed after the
\* window with the summary 2; the counter is 0 again
C21_Witness ==
    /\ Len(reports) = 4
    /\ reports[1].printed
    /\ ~reports[2].printed /\ ~reports[3].printed
    /\ reports[4].printed /\ reports[4].summary = 2
    /\ reports[4].at - reports[1].at >= Minute
    /\ suppressedErrs = 0

\* the other case of C21: two printed reports a minute apart with nothing
\* suppressed between them, the second without a summary
C21_WitnessNoSummary ==
    /\ Len(reports) = 2
    /\ reports[1].printed /\ reports[2].printed
    /\ reports[2].summary = 0

----------------------------------------------------------------------------
(* The supervisor with several streams and repeated requests *)

\* the variables of the single pipeline, which the supervisor's own
\* specification leaves alone
onePipeline ==
    <<registered, cfg, ctxDone, fclosed, done, pc, cur, nread, spc, sfound, fed, failed,
      groups, merger, mu, pendingCb, sending, sent, bufIdx, arrived, produced,
      now, lastErrLog, suppressedErrs, reports, answers, opened, detected, written, probe>>

\* handleStartLogging with valid options and a FIFO that opens: the consumer
\* is stored under the path, whatever was stored there, and its task starts
StartLogging(p) ==
    /\ pc = "init"
    /\ Len(tasks) < MaxStarts
    /\ tasks' = Append(tasks, [path |-> p, state |-> "running", replaced |-> consumers[p]])
    /\ consumers' = [consumers EXCEPT ![p] = Len(tasks) + 1]
    /\ UNCHANGED <<stopping, dmu>>
    /\ UNCHANGED onePipeline

\* handleStopLogging, under d.mu: the entry of the path is looked up and
\* deleted; without an entry the call returns
StopLogging(p) ==
    /\ pc = "init"
    /\ consumers[p] # 0
    /\ consumers' = [consumers EXCEPT ![p] = 0]
    /\ stopping' = stopping \cup {consumers[p]}
    /\ UNCHANGED <<tasks, dmu>>
    /\ UNCHANGED onePipeline

\* handleStopLogging, after the lock: lc.cancel()
StopCancels(i) ==
    /\ pc = "init"
    /\ i \in stopping
    /\ tasks[i].state = "running"
    /\ tasks' = [tasks EXCEPT ![i].state = "cancelled"]
    /\ UNCHANGED <<consumers, stopping, dmu>>
    /\ UNCHANGED onePipeline

\* handleStopLogging: <-lc.done returns and the call answers
StopReturns(i) ==
    /\ pc = "init"
    /\ i \in stopping
    /\ tasks[i].state = "done"
    /\ stopping' = stopping \ {i}
    /\ UNCHANGED <<consumers, tasks, dmu>>
    /\ UNCHANGED onePipeline

\* consumeLog returns: after the producer's EOF, a decode error or the
\* cancellation
TaskEnds(i) ==
    /\ pc = "init"
    /\ i \in 1..Len(tasks)
    /\ tasks[i].state \in {"running", "cancelled"}
    /\ tasks' = [tasks EXCEPT ![i].state = "done"]
    /\ UNCHANGED <<consumers, stopping, dmu>>
    /\ UNCHANGED onePipeline

SupervisorNext ==
    \/ \E p \in Paths : StartLogging(p)
    \/ \E p \in Paths : StopLogging(p)
    \/ \E i \in 1..MaxStarts : StopCancels(i)
    \/ \E i \in 1..MaxStarts : StopReturns(i)
    \/ \E i \in 1..MaxStarts : TaskEnds(i)

SpecSupervisor == Init /\ [][SupervisorNext]_vars

\* the tasks of a path that have not returned
RunningTasks(p) ==
    {i \in 1..Len(tasks) : tasks[i].path = p /\ tasks[i].state # "done"}

\* C22 as stated: for every stream path at most one processing task is
\* running at any time, also after a second BeginStream for a registered path.
C22_Original == \A p \in Paths : Cardinality(RunningTasks(p)) <= 1

\* C22, the part the code keeps: of the running tasks of a path at most one
\* is in the registry; every other one is a task whose entry a later
\* BeginStream overwrote or one that an EndStream call removed and has in
\* hand; and a path that was begun once has at most one running task.
C22_OneRegisteredTask ==
    \A p \in Paths :
        /\ \A i \in RunningTasks(p) :
              \/ consumers[p] = i
              \/ i \in stopping
              \/ \E j \in 1..Len(tasks) : tasks[j].path = p /\ tasks[j].replaced = i
        /\ Cardinality({i \in 1..Len(tasks) : tasks[i].path = p}) <= 1
              => Cardinality(RunningTasks(p)) <= 1

\* BeginStream was called twice for a path: the second call overwrote the
\* entry of the first, whose task is still running and in no EndStream's hand
C22_Witness ==
    /\ Len(tasks) >= 2
    /\ tasks[1].path = "p" /\ tasks[2].path = "p"
    /\ tasks[2].replaced = 1
    /\ tasks[1].state = "running" /\ tasks[2].state = "running"
    /\ consumers["p"] = 2
    /\ stopping = {}

----------------------------------------------------------------------------
(* The journal writer on any container info and message *)

\* a label key and an env entry whose sanitized names are metadata fields
LabelContainerName == <<"c", "o", "n", "t", "a", "i", "n", "e", "r", "_", "n", "a", "m", "e">>
EnvImageName == NameImageName \o <<"=", "e">>

\* label and env names: lowercase, a leading digit, a dash and an uppercase
\* letter, a rune outside ASCII, two names that differ in case only, the
\* name of a metadata field in lowercase
SampleLabels ==
    { [k \in {} |-> <<>>],
      [k \in {<<"a">>} |-> <<"v">>],
      [k \in {<<"9", "a">>} |-> <<"v">>],
      [k \in {<<"a", "-", "Z">>} |-> <<"v">>],
      [k \in {<<"é", "_">>} |-> <<"v">>],
      [k \in {<<"a">>, <<"A">>} |-> <<"v">>],
      [k \in {LabelContainerName} |-> <<"v">>] }

\* env entries: KEY=VAL with a plain key, a key with a leading digit, an
\* empty key, and an entry without "="
SampleEnvs ==
    { <<>>,
      << <<"a", "=", "v">> >>,
      << <<"9", "=", "v">>, <<"n", "o">> >>,
      << <<"=", "v">> >>,
      << EnvImageName >> }

\* what the options select: nothing, the keys listed, every key (the
\* regex ^)
Selections ==
    { [Tag |-> <<>>, Labels |-> ls, LabelsRegex |-> lr, Env |-> es, EnvRegex |-> er] :
        ls \in { <<>>, << <<"a">>, <<"9", "a">> >> },
        lr \in { NilRegex, Anchored(<<>>) },
        es \in { <<>>, << <<"9">> >> },
        er \in { NilRegex, Anchored(<<>>) } }

\* the extra fields of a parsed JSON body: none, one, one with a leading
\* digit and a dash, two that differ in case only
SampleJSONFields ==
    { [k \in {} |-> <<>>],
      [k \in {KeyUser} |-> <<"b", "o", "b">>],
      [k \in {<<"9", "-">>} |-> <<"v">>],
      [k \in {KeyUser, <<"U", "S", "E", "R">>} |-> <<"v">>] }

\* newJournalWriter(cfg, infoJSON, sendFn)
NewWriter ==
    /\ pc = "init"
    /\ probe.fn = "none"
    /\ \E c \in Selections, labels \in SampleLabels, env \in SampleEnvs :
          probe' = [fn |-> "newJournalWriter", c |-> c,
                    info |-> [AppInfo EXCEPT !.ContainerLabels = labels,
                                             !.ContainerEnv = env],
                    w |-> newJournalWriter(c, [AppInfo EXCEPT !.ContainerLabels = labels,
                                                              !.ContainerEnv = env])]
    /\ UNCHANGED <<registered, cfg, ctxDone, fclosed, done, pc, cur, nread, spc, sfound,
                   fed, failed, answers, opened, detected, written>>
    /\ UNCHANGED mergVars
    /\ UNCHANGED partVars
    /\ UNCHANGED repVars
    /\ UNCHANGED supVars

\* w.Write(msg, pri, processedLine, jsonFields)
WriteCall ==
    /\ pc = "init"
    /\ probe.fn \in {"newJournalWriter", "Write"}
    /\ \E t \in {0, 1000}, jsonFields \in SampleJSONFields :
          LET msg == [Line |-> <<"x">>, Source |-> "stdout", TimeNano |-> t]
          IN probe' = [fn |-> "Write", c |-> probe.c, info |-> probe.info,
                       w |-> probe.w, msg |-> msg,
                       rec |-> Write(probe.w, msg, PriInfo, msg.Line, jsonFields)]
    /\ UNCHANGED <<registered, cfg, ctxDone, fclosed, done, pc, cur, nread, spc, sfound,
                   fed, failed, answers, opened, detected, written>>
    /\ UNCHANGED mergVars
    /\ UNCHANGED partVars
    /\ UNCHANGED repVars
    /\ UNCHANGED supVars

WriterNext == NewWriter \/ WriteCall

SpecWriter == Init /\ [][WriterNext]_vars

\* C23 as stated: the record has SYSLOG_TIMESTAMP if and only if the
\* message's time_nano is not 0.
C23_Original ==
    probe.fn = "Write" =>
        (NameSyslogTimestamp \in DOMAIN probe.rec.vars <=> probe.msg.TimeNano # 0)

\* C23, what the code does: every record has SYSLOG_TIMESTAMP, the
\* formatted time of the message, also for time_nano 0.
C23_TimestampAlways ==
    probe.fn = "Write" =>
        /\ NameSyslogTimestamp \in DOMAIN probe.rec.vars
        /\ probe.rec.vars[NameSyslogTimestamp] = FormatTime(probe.msg.TimeNano)

\* a message with time_nano 0 was written and its record has the field
C23_Witness ==
    /\ probe.fn = "Write"
    /\ probe.msg.TimeNano = 0
    /\ NameSyslogTimestamp \in DOMAIN probe.rec.vars

\* the journal's field names: uppercase letters, digits and underscore, no
\* digit in front
ValidFieldName(f) ==
    /\ \A i \in 1..Len(f) : IsUpper(f[i]) \/ f[i] \in Digits \/ f[i] = "_"
    /\ Len(f) > 0 => f[1] \notin Digits

\* C24: every key of the field map given to the journal sink consists only
\* of uppercase ASCII letters, digits and underscore and does not begin with
\* a digit, and so does every key of the writer's pre-computed fields.
C24_KeysValid ==
    /\ probe.fn \in {"newJournalWriter", "Write"}
          => \A f \in DOMAIN probe.w.baseVars : ValidFieldName(f)
    /\ probe.fn = "Write" => \A f \in DOMAIN probe.rec.vars : ValidFieldName(f)

\* a record with a label and a JSON extra whose names start with a digit:
\* both keys were rewritten
C24_Witness ==
    /\ probe.fn = "Write"
    /\ <<"_", "9", "A">> \in DOMAIN probe.rec.vars
    /\ PrefixJSON \o <<"_", "9", "_">> \in DOMAIN probe.rec.vars
    /\ NameSyslogTimestamp \in DOMAIN probe.rec.vars

----------------------------------------------------------------------------
(* sanitizeFieldName on any name *)

\* the runes of the names: lowercase and uppercase letters, digits, the
\* underscore, a dash, a rune outside ASCII
NameRunes == {"a", "z", "A", "Z", "0", "9", "_", "-", "é"}

NamesUpTo(n) == UNION {[1..k -> NameRunes] : k \in 0..n}

\* sanitizeFieldName(name), and sanitizeFieldName of the result
SanitizeCall ==
    /\ pc = "init"
    /\ probe.fn = "none"
    /\ \E name \in NamesUpTo(MaxNameLen) :
          probe' = [fn |-> "sanitizeFieldName", name |-> name,
                    once |-> sanitizeFieldName(name),
                    twice |-> sanitizeFieldName(sanitizeFieldName(name))]
    /\ UNCHANGED <<registered, cfg, ctxDone, fclosed, done, pc, cur, nread, spc, sfound,
                   fed, failed, answers, opened, detected, written>>
    /\ UNCHANGED mergVars
    /\ UNCHANGED partVars
    /\ UNCHANGED repVars
    /\ UNCHANGED supVars

SpecSanitize == Init /\ [][SanitizeCall]_vars

\* C25: sanitizeFieldName(sanitizeFieldName(s)) = sanitizeFieldName(s) for
\* every name s, also one that starts with a digit or holds runes outside
\* ASCII.
C25_Idempotent ==
    probe.fn = "sanitizeFieldName" => probe.twice = probe.once

\* a name with a digit in front and a rune outside ASCII: the first call put
\* an underscore in front and replaced the rune, the second changed nothing
C25_Witness ==
    /\ probe.fn = "sanitizeFieldName"
    /\ probe.name = <<"9", "é", "a">>
    /\ probe.once = <<"_", "9", "_", "A">>
    /\ probe.twice = <<"_", "9", "_", "A">>

----------------------------------------------------------------------------
(* The decoder: logEntryDecoder.decode *)

\* a field of a frame: its number and wire type, its payload read as a
\* string, as a varint or as a nested message, and whether the payload is
\* whole (ok = FALSE: a truncated varint, or a length that overruns the frame)
Field(num, wire, str, int, sub, ok) ==
    [num |-> num, wire |-> wire, str |-> str, int |-> int, sub |-> sub, ok |-> ok]

WireVarint == 0
WireFixed64 == 1
WireBytes == 2
WireFixed32 == 5

\* the zero value of logEntry; a nil PartialLogMetadata is the empty sequence
ZeroEntry ==
    [Source |-> "", TimeNano |-> 0, Line |-> "", Partial |-> FALSE,
     PartialLogMetadata |-> <<>>]

ZeroMeta == [Last |-> FALSE, ID |-> "", Ordinal |-> 0]

\* skipField: an unknown field is skipped by its wire type
skipField(f) ==
    IF f.wire \in {WireVarint, WireFixed64, WireBytes, WireFixed32} THEN ~f.ok ELSE TRUE

RECURSIVE unmarshalPartialMeta(_, _)
\* unmarshalPartialMeta(data, meta): the fields in order, up to the first error
unmarshalPartialMeta(data, meta) ==
    IF data = <<>> THEN [err |-> FALSE, meta |-> meta]
    ELSE LET f == Head(data) IN
         CASE f.num = 1 ->
                IF f.wire # WireVarint \/ ~f.ok THEN [err |-> TRUE, meta |-> meta]
                ELSE unmarshalPartialMeta(Tail(data), [meta EXCEPT !.Last = (f.int # 0)])
           [] f.num = 2 ->
                IF f.wire # WireBytes \/ ~f.ok THEN [err |-> TRUE, meta |-> meta]
                ELSE unmarshalPartialMeta(Tail(data), [meta EXCEPT !.ID = f.str])
           [] f.num = 3 ->
                IF f.wire # WireVarint \/ ~f.ok THEN [err |-> TRUE, meta |-> meta]
                ELSE unmarshalPartialMeta(Tail(data), [meta EXCEPT !.Ordinal = f.int])
           [] OTHER ->
                IF skipField(f) THEN [err |-> TRUE, meta |-> meta]
                ELSE unmarshalPartialMeta(Tail(data), meta)

RECURSIVE unmarshalLogEntry(_, _)
\* unmarshalLogEntry(data, entry): the fields in order, up to the first error;
\* the entry keeps what the fields before the error stored
unmarshalLogEntry(data, entry) ==
    IF data = <<>> THEN [err |-> FALSE, entry |-> entry]
    ELSE LET f == Head(data) IN
         CASE f.num = 1 ->
                IF f.wire # WireBytes \/ ~f.ok THEN [err |-> TRUE, entry |-> entry]
                ELSE unmarshalLogEntry(Tail(data), [entry EXCEPT !.Source = f.str])
           [] f.num = 2 ->
                IF f.wire # WireVarint \/ ~f.ok THEN [err |-> TRUE, entry |-> entry]
                ELSE unmarshalLogEntry(Tail(data), [entry EXCEPT !.TimeNano = f.int])
           [] f.num = 3 ->
                IF f.wire # WireBytes \/ ~f.ok THEN [err |-> TRUE, entry |-> entry]
                ELSE unmarshalLogEntry(Tail(data), [entry EXCEPT !.Line = f.str])
           [] f.num = 4 ->
                IF f.wire # WireVarint \/ ~f.ok THEN [err |-> TRUE, entry |-> entry]
                ELSE unmarshalLogEntry(Tail(data), [entry EXCEPT !.Partial = (f.int # 0)])
           [] f.num = 5 ->
                IF f.wire # WireBytes \/ ~f.ok THEN [err |-> TRUE, entry |-> entry]
                ELSE LET m == unmarshalPartialMeta(f.sub, ZeroMeta) IN
                     IF m.err THEN [err |-> TRUE, entry |-> entry]
                     ELSE unmarshalLogEntry(Tail(data),
                              [entry EXCEPT !.PartialLogMetadata = <<m.meta>>])
           [] OTHER ->
                IF skipField(f) THEN [err |-> TRUE, entry |-> entry]
                ELSE unmarshalLogEntry(Tail(data), entry)

\* faulty variant: the record is not reset before the fields are stored
decodeNoReset(entry, frame) ==
    IF frame = <<>> THEN [err |-> FALSE, entry |-> entry]
    ELSE unmarshalLogEntry(frame, entry)

\* decode(entry) on a frame that was read whole: a frame of size 0 returns
\* at once, any other frame resets the entry and stores its fields
decode(entry, frame) ==
    IF frame = <<>> THEN [err |-> FALSE, entry |-> entry]
    ELSE unmarshalLogEntry(frame, ZeroEntry)

\* the fields of a partial_log_metadata message
MetaLast == Field(1, WireVarint, "", 1, <<>>, TRUE)
MetaID == Field(2, WireBytes, "id", 0, <<>>, TRUE)

\* the fields of the frames: the five fields of the record, an unknown field,
\* a field with the wrong wire type, a field whose payload overruns the frame
FrameFields ==
    { Field(1, WireBytes, "stderr", 0, <<>>, TRUE),
      Field(2, WireVarint, "", 7, <<>>, TRUE),
      Field(3, WireBytes, "a", 0, <<>>, TRUE),
      Field(4, WireVarint, "", 1, <<>>, TRUE),
      Field(5, WireBytes, "", 0, <<MetaLast, MetaID>>, TRUE),
      Field(9, WireFixed32, "", 0, <<>>, TRUE),
      Field(2, WireBytes, "", 0, <<>>, TRUE),
      Field(3, WireBytes, "a", 0, <<>>, FALSE) }

Frames == UNION {[1..k -> FrameFields] : k \in 0..MaxFrameFields}

\* the numbers of the record's fields that a frame carries
Carried(frame) == {frame[i].num : i \in 1..Len(frame)}

\* dec.decode(&entry) reads one frame whole; the caller hands in a fresh
\* record (the read loop's var entry) or the record of its previous call
DecodeFrame ==
    /\ pc = "init"
    /\ probe.fn \in {"none", "decode"}
    /\ LET n == IF probe.fn = "none" THEN 0 ELSE probe.calls
           prev == IF probe.fn = "none" THEN ZeroEntry ELSE probe.entry
       IN /\ n < MaxDecodes
          /\ \E frame \in Frames, before \in {ZeroEntry, prev} :
                LET r == decode(before, frame)
                IN probe' = [fn |-> "decode", calls |-> n + 1, read |-> TRUE,
                             frame |-> frame, before |-> before,
                             err |-> r.err, entry |-> r.entry]
    /\ UNCHANGED <<registered, cfg, ctxDone, fclosed, done, pc, cur, nread, spc, sfound,
                   fed, failed, answers, opened, detected, written>>
    /\ UNCHANGED mergVars
    /\ UNCHANGED partVars
    /\ UNCHANGED repVars
    /\ UNCHANGED supVars

\* dec.decode(&entry) when io.ReadFull fails on the length or on the frame
\* (the stream ended): the error is returned and the entry is not touched
DecodeReadFails ==
    /\ pc = "init"
    /\ probe.fn \in {"none", "decode"}
    /\ LET n == IF probe.fn = "none" THEN 0 ELSE probe.calls
           prev == IF probe.fn = "none" THEN ZeroEntry ELSE probe.entry
       IN /\ n < MaxDecodes
          /\ probe' = [fn |-> "decode", calls |-> n + 1, read |-> FALSE,
                       frame |-> <<>>, before |-> prev,
                       err |-> TRUE, entry |-> prev]
    /\ UNCHANGED <<registered, cfg, ctxDone, fclosed, done, pc, cur, nread, spc, sfound,
                   fed, failed, answers, opened, detected, written>>
    /\ UNCHANGED mergVars
    /\ UNCHANGED partVars
    /\ UNCHANGED repVars
    /\ UNCHANGED supVars

DecoderNext == DecodeFrame \/ DecodeReadFails

SpecDecoder == Init /\ [][DecoderNext]_vars

\* the fields of the record that the frame of the last call did not carry
\* have their default values
NotCarriedAreDefault ==
    /\ 1 \notin Carried(probe.frame) => probe.entry.Source = ""
    /\ 2 \notin Carried(probe.frame) => probe.entry.TimeNano = 0
    /\ 3 \notin Carried(probe.frame) => probe.entry.Line = ""
    /\ 4 \notin Carried(probe.frame) => probe.entry.Partial = FALSE
    /\ 5 \notin Carried(probe.frame) => probe.entry.PartialLogMetadata = <<>>

\* C26 as stated: after any decode call that returns without error, a
\* zero-length frame included, every field of the record that the frame did
\* not carry has its default value, whatever the record held before.
C26_Original ==
    (probe.fn = "decode" /\ ~probe.err) => NotCarriedAreDefault

\* C26, what the code does: a decode without error of a frame that is not
\* empty leaves every field the frame did not carry at its default value,
\* and a decode of a zero-length frame leaves the record as it was.
C26_ClearedUnlessEmptyFrame ==
    (probe.fn = "decode" /\ ~probe.err) =>
        /\ probe.frame # <<>> => NotCarriedAreDefault
        /\ probe.frame = <<>> => probe.entry = probe.before

\* a zero-length frame decoded into the record of the previous call: the
\* call returns without error and the record still holds the previous line
C26_Witness ==
    /\ probe.fn = "decode" /\ ~probe.err
    /\ probe.frame = <<>>
    /\ probe.before.Line = "a"
    /\ probe.entry.Line = "a"

\* a frame that carries only the time, decoded into a record that held a
\* source, a line and metadata: those fields are cleared
C26_WitnessCleared ==
    /\ probe.fn = "decode" /\ ~probe.err
    /\ Carried(probe.frame) = {2}
    /\ probe.before.Source = "stderr" /\ probe.before.PartialLogMetadata # <<>>
    /\ probe.entry = [ZeroEntry EXCEPT !.TimeNano = 7]

----------------------------------------------------------------------------
(* StripTimestamp on any line *)

\* the bytes of the lines: T stands for the bytes of one timestamp, SP, dash
\* and colon are separators, x is any other byte
StripBytes == {"T", X, SP, "-", ":"}

StripLinesUpTo(n) == UNION {[1..k -> StripBytes] : k \in 0..n}

\* pattern lists as compileTimestampPatterns builds them: one built-in
\* pattern; a more specific built-in pattern before a shorter one; a custom
\* pattern without the anchor
StripPatternLists ==
    { <<Anchored(<<"T">>)>>,
      <<Anchored(<<"T", "T">>), Anchored(<<"T">>)>>,
      <<Find(<<"T">>)>> }

\* StripTimestamp(line, patterns) on a line and a pattern list
StripCall ==
    /\ pc = "init"
    /\ probe.fn = "none"
    /\ \E line \in StripLinesUpTo(MaxLineLen), patterns \in StripPatternLists :
          probe' = [fn |-> "StripTimestamp", line |-> line, patterns |-> patterns,
                    out |-> StripTimestamp(line, patterns)]
    /\ UNCHANGED <<registered, cfg, ctxDone, fclosed, done, pc, cur, nread, spc, sfound,
                   fed, failed, answers, opened, detected, written>>
    /\ UNCHANGED mergVars
    /\ UNCHANGED partVars
    /\ UNCHANGED repVars
    /\ UNCHANGED supVars

SpecStrip == Init /\ [][StripCall]_vars

\* the patterns of the list that match the line
StripHits(line, patterns) == {i \in 1..Len(patterns) : Match(patterns[i], line)}

\* the first matching pattern and the separators after its match consume
\* the line: every byte after the end of the match is a separator
ConsumesWholeLine(line, patterns) ==
    /\ StripHits(line, patterns) # {}
    /\ LET i == CHOOSE k \in StripHits(line, patterns) :
                   \A j \in StripHits(line, patterns) : k <= j
       IN \A p \in (FindEnd(patterns[i], line) + 1)..Len(line) : line[p] \in SepBytes

OnlyTimestamp ==
    /\ probe.fn = "StripTimestamp"
    /\ probe.patterns[1].kind = "anchored"
    /\ \E i \in StripHits(probe.line, probe.patterns) :
          /\ \A j \in StripHits(probe.line, probe.patterns) : i <= j
          /\ probe.line = probe.patterns[i].word

\* C28 as stated: when the entire line is just a timestamp matched by a
\* built-in pattern, StripTimestamp returns the empty string.
C28_Original ==
    OnlyTimestamp => probe.out = <<>>

\* C28, what the code does: a line that is just a timestamp matched by a
\* built-in pattern is returned as it is, never as the empty string.
C28_OnlyTimestampKept ==
    OnlyTimestamp => probe.out = probe.line /\ probe.out # <<>>

\* the line is one timestamp and the result is that timestamp
C28_Witness ==
    /\ OnlyTimestamp
    /\ probe.line = <<"T">>
    /\ probe.out = <<"T">>

----------------------------------------------------------------------------
(* ParseConfig: the comma-separated list options *)

Comma == ","

RECURSIVE SplitFrom(_, _, _)
\* the pieces of v from byte i on, piece being the one in hand
SplitFrom(v, i, piece) ==
    IF i > Len(v) THEN <<piece>>
    ELSE IF v[i] = Comma THEN <<piece>> \o SplitFrom(v, i + 1, <<>>)
    ELSE SplitFrom(v, i + 1, Append(piece, v[i]))

\* strings.Split(v, ","): one piece more than there are commas, empty pieces
\* included
Split(v) == SplitFrom(v, 1, <<>>)

RECURSIVE TrimLeft(_)
TrimLeft(s) == IF s # <<>> /\ Head(s) = SP THEN TrimLeft(Tail(s)) ELSE s

RECURSIVE TrimRight(_)
TrimRight(s) ==
    IF s # <<>> /\ s[Len(s)] = SP THEN TrimRight(SubSeq(s, 1, Len(s) - 1)) ELSE s

\* strings.TrimSpace
TrimSpace(s) == TrimRight(TrimLeft(s))

TrimEach(list) == [i \in 1..Len(list) |-> TrimSpace(list[i])]

KeyLogLevel == <<"l", "o", "g", "_", "l", "e", "v", "e", "l">>
KeyLog == <<"l", "o", "g">>

ListOptions == {"labels", "env", "json-level-keys", "json-message-keys"}

\* the field of the Config that ParseConfig fills from the list option opt
\* when its value is v (the empty value is the same as an absent key)
ParseList(opt, v) ==
    CASE opt \in {"labels", "env"} ->
            IF v # <<>> THEN Split(v) ELSE <<>>
      [] opt = "json-level-keys" ->
            IF v # <<>> THEN TrimEach(Split(v)) ELSE <<KeyLevel, KeySeverity, KeyLogLevel>>
      [] opt = "json-message-keys" ->
            IF v # <<>> THEN TrimEach(Split(v)) ELSE <<KeyMessage, KeyMsg, KeyLog>>

\* keySet[k] in addFilteredFields, obj[key] in ParseJSONLog: the list names k
Selects(list, k) == \E i \in 1..Len(list) : list[i] = k

ValueBytes == {"a", "b", Comma, SP}

ValuesUpTo(n) == UNION {[1..k -> ValueBytes] : k \in 0..n}

\* ParseConfig on options that hold one list option
ParseListCall ==
    /\ pc = "init"
    /\ probe.fn = "none"
    /\ \E opt \in ListOptions, v \in ValuesUpTo(MaxValueLen) :
          probe' = [fn |-> "ParseConfig", opt |-> opt, v |-> v,
                    list |-> ParseList(opt, v)]
    /\ UNCHANGED <<registered, cfg, ctxDone, fclosed, done, pc, cur, nread, spc, sfound,
                   fed, failed, answers, opened, detected, written>>
    /\ UNCHANGED mergVars
    /\ UNCHANGED partVars
    /\ UNCHANGED repVars
    /\ UNCHANGED supVars

SpecLists == Init /\ [][ParseListCall]_vars

ValueAB == <<"a", Comma, SP, "b">>

\* C29 as stated: every list option is split on commas and each element is
\* trimmed of surrounding whitespace, so the value 'a, b' selects exactly
\* the keys a and b.
C29_Original ==
    (probe.fn = "ParseConfig" /\ probe.v # <<>>) =>
        /\ probe.list = TrimEach(Split(probe.v))
        /\ probe.v = ValueAB =>
              \A k \in ValuesUpTo(2) : Selects(probe.list, k) <=> k \in {<<"a">>, <<"b">>}

\* C29, what the code does: json-level-keys and json-message-keys are split
\* on commas and trimmed per element; labels and env are split on commas and
\* their elements are kept as they are, surrounding whitespace included.
C29_OnlyJSONKeysTrimmed ==
    (probe.fn = "ParseConfig" /\ probe.v # <<>>) =>
        /\ probe.opt \in {"json-level-keys", "json-message-keys"}
              => probe.list = TrimEach(Split(probe.v))
        /\ probe.opt \in {"labels", "env"} => probe.list = Split(probe.v)

\* labels = 'a, b': the list holds a and ' b', so the label b is not selected
C29_Witness ==
    /\ probe.fn = "ParseConfig"
    /\ probe.opt = "labels"
    /\ probe.v = ValueAB
    /\ probe.list = << <<"a">>, <<SP, "b">> >>
    /\ ~Selects(probe.list, <<"b">>)

\* json-message-keys = 'a, b': the list holds a and b
C29_WitnessTrimmed ==
    /\ probe.fn = "ParseConfig"
    /\ probe.opt = "json-message-keys"
    /\ probe.v = ValueAB
    /\ probe.list = << <<"a">>, <<"b">> >>

----------------------------------------------------------------------------
(* ParseJSONLog and the callback on any body *)

\* the bytes of the bodies: the braces, and the members "message" with
\* text, with the empty string and with a number, "msg" with text, and
\* "level" with a level the table knows
JSONBytes == {"{", "}", "M", "Q", "K", "G", "L"}

JSONBodiesUpTo(n) == UNION {[1..k -> JSONBytes] : k \in 1..n}

\* configurations with parse-json on: the message keys in the order of the
\* defaults, in the other order, and with a key that is a level key as well;
\* the sd-daemon prefix and timestamp stripping on or off
JSONConfigs ==
    {[ParseJSON |-> TRUE,
      JSONLevelKeys |-> <<KeyLevel, KeySeverity>>,
      JSONMessageKeys |-> mk,
      StripTimestamp |-> st,
      StripTimestampPatterns |-> <<Anchored(<<"T">>)>>,
      PriorityPrefix |-> b,
      PriorityMatchers |-> << [Priority |-> PriCrit, Regex |-> Lead(2, <<"E">>)] >>,
      PriorityDefaultStdout |-> PriInfo,
      PriorityDefaultStderr |-> PriErr,
      FieldExtractors |-> <<>>] :
        mk \in { <<KeyMessage, KeyMsg>>, <<KeyMsg, KeyMessage>>, <<KeyLevel, KeyMessage>> },
        st \in BOOLEAN, b \in BOOLEAN}

MessageOf(line) == [Line |-> line, Source |-> "stdout", TimeNano |-> 1000]

\* the callback on a merged message with the body line: what ParseJSONLog
\* returned and what the callback gave to the writer
JSONCall ==
    /\ pc = "init"
    /\ probe.fn = "none"
    /\ \E c \in JSONConfigs, line \in JSONBodiesUpTo(MaxJSONLen) :
          probe' = [fn |-> "ParseJSONLog", c |-> c, line |-> line,
                    parsed |-> ParseJSONLog(c, line),
                    rec |-> OutputCallback(c, MessageOf(line))]
    /\ UNCHANGED <<registered, cfg, ctxDone, fclosed, done, pc, cur, nread, spc, sfound,
                   fed, failed, answers, opened, detected, written>>
    /\ UNCHANGED mergVars
    /\ UNCHANGED partVars
    /\ UNCHANGED repVars
    /\ UNCHANGED supVars

SpecJSON == Init /\ [][JSONCall]_vars

\* the keys of the list that the object holds with a string value
StringKeys(keys, obj) ==
    {i \in 1..Len(keys) : keys[i] \in DOMAIN obj /\ obj[keys[i]].isString}

First(S) == CHOOSE i \in S : \A j \in S : i <= j

\* what the callback gives to the writer when JSON extraction is off
WithoutJSON(c, line) == OutputCallback([c EXCEPT !.ParseJSON = FALSE], MessageOf(line))

\* C30 as stated: 'not JSON' exactly when the body is not one JSON object or
\* no configured message key has a string value; otherwise the message is
\* the value of the first message key with a string value, that key is not
\* among the extra fields, and the pipeline emits that message as the body;
\* on 'not JSON' the pipeline continues with the original body.
C30_Original ==
    probe.fn = "ParseJSONLog" =>
        LET u == Unmarshal(probe.line)
            keys == probe.c.JSONMessageKeys
            hits == IF u.ok THEN StringKeys(keys, u.obj) ELSE {}
        IN /\ ~probe.parsed.ok <=> (~u.ok \/ hits = {})
           /\ probe.parsed.ok =>
                 /\ hits # {}
                 /\ probe.parsed.Message = u.obj[keys[First(hits)]].bytes
                 /\ keys[First(hits)] \notin DOMAIN probe.parsed.ExtraFields
                 /\ probe.rec.message = probe.parsed.Message
           /\ ~probe.parsed.ok => probe.rec = WithoutJSON(probe.c, probe.line)

\* C30, what the code does: 'not JSON' exactly when the body is not one JSON
\* object, or, once the key that gave the level is set aside, no configured
\* message key has a string value, or the first one that has holds the empty
\* string; otherwise the message is the value of that key, the key is not
\* among the extra fields, and the pipeline goes on with the message in
\* place of the body: timestamp stripping, then the classifier unless the
\* JSON level gave the severity. On 'not JSON' the pipeline goes on with the
\* original body.
C30_NotJSONConditions ==
    probe.fn = "ParseJSONLog" =>
        LET u == Unmarshal(probe.line)
            c == probe.c
            lv == IF u.ok THEN StringKeys(c.JSONLevelKeys, u.obj) ELSE {}
            used == IF lv = {} THEN {} ELSE {c.JSONLevelKeys[First(lv)]}
            keys == c.JSONMessageKeys
            hits == IF u.ok
                    THEN {i \in StringKeys(keys, u.obj) : keys[i] \notin used}
                    ELSE {}
            empty == hits # {} /\ u.obj[keys[First(hits)]].bytes = <<>>
        IN /\ ~probe.parsed.ok <=> (~u.ok \/ hits = {} \/ empty)
           /\ probe.parsed.ok =>
                 /\ probe.parsed.Message = u.obj[keys[First(hits)]].bytes
                 /\ keys[First(hits)] \notin DOMAIN probe.parsed.ExtraFields
                 /\ probe.rec.message =
                        IF JSONLevelToPriority(probe.parsed.Level).ok
                        THEN Classified(c, probe.parsed.Message)
                        ELSE WithoutJSON(c, probe.parsed.Message).message
           /\ ~probe.parsed.ok => probe.rec = WithoutJSON(c, probe.line)

\* {"message":"","msg":"x"} with the keys message, msg: a message key has a
\* string value, the extractor signals 'not JSON' and the original body is
\* emitted
C30_Witness ==
    /\ probe.fn = "ParseJSONLog"
    /\ probe.line = <<"{", "Q", "G", "}">>
    /\ probe.c.JSONMessageKeys = <<KeyMessage, KeyMsg>>
    /\ ~probe.parsed.ok
    /\ probe.rec.message = probe.line

\* {"message":3,"msg":"x"}: the first key with a string value is msg; its
\* value is the body and the number stays among the extra fields
C30_WitnessSecondKey ==
    /\ probe.fn = "ParseJSONLog"
    /\ probe.line = <<"{", "K", "G", "}">>
    /\ probe.c.JSONMessageKeys = <<KeyMessage, KeyMsg>>
    /\ probe.parsed.ok
    /\ probe.parsed.Message = <<"x">>
    /\ DOMAIN probe.parsed.ExtraFields = {KeyMessage}
    /\ probe.rec.message = <<"x">>

----------------------------------------------------------------------------
(* Re-arming the flush timer, checked under Spec *)

\* a step in which the timer callback finds data and runs flushLocked on it
TimerFlushStep == sending = NoMsg /\ sending' # NoMsg /\ sending'.by = "timer"

\* C31 as stated: re-arming cancels the earlier timer, so the callback that
\* flushes the buffer belongs to the timer armed by the most recent AddLine:
\* that timer has expired when the flush is made
C31_Original == [][TimerFlushStep => merger.timer = "expired"]_vars

\* C31: a timer-driven flush is made by a callback that had started before
\* it took the lock; the timer armed by the most recent AddLine has expired,
\* or it is still armed and the callback is that of an earlier timer, which
\* Stop did not recall
C31_FlushByStartedCallback ==
    [][TimerFlushStep =>
          /\ pendingCb >= 1
          /\ merger.timer \in {"expired", "armed"}
          /\ merger'.timer = "nil"
          /\ sending'.idx = bufIdx]_vars

\* the earlier timer fired, AddLine appended a line and re-armed, and a
\* callback flushed both lines while another one is still waiting
C31_Witness ==
    /\ sending # NoMsg
    /\ sending.by = "timer"
    /\ Len(sending.idx) = 2
    /\ pendingCb >= 1

----------------------------------------------------------------------------
(* The merger's single slot, checked under Spec *)

\* the two shapes of the merger's fields
MergerEmpty(m) == m.buf = <<>> /\ m.lineCount = 0 /\ m.timer = "nil"
MergerInProgress(m) ==
    m.lineCount >= 1 /\ m.lineCount <= MultilineMaxLines /\ m.timer # "nil"

\* the fields of the merger as another holder of the lock would find them
C32_SlotWhenLockFree ==
    mu = "free" =>
        /\ ~merger.hasData <=> MergerEmpty(merger)
        /\ merger.hasData <=> MergerInProgress(merger)

\* Flush and the timer callback: with hasData false nothing is emitted or
\* changed; with hasData true one message goes out and hasData is false after
C32_FlushStep ==
    (pc = "flush" /\ pc' # "flush") \/ pendingCb' < pendingCb =>
        IF merger.hasData
        THEN /\ sending = NoMsg /\ sending' # NoMsg
             /\ sending'.msg = FlushMsg(merger)
             /\ ~merger'.hasData
             /\ sent' = sent
        ELSE UNCHANGED <<merger, mu, sending, sent, bufIdx>>

\* C32: with the merger lock free, hasData is false exactly when the body is
\* empty, lineCount is 0 and no timer is set, and true exactly when lineCount
\* is between 1 and MultilineMaxLines and a timer is set; Flush and the timer
\* callback do nothing when hasData is false and leave it false otherwise, so
\* a second flush emits nothing
C32_EmptyOrInProgress == [](C32_SlotWhenLockFree) /\ [][C32_FlushStep]_vars

\* Flush found the slot empty after the timer callback had emitted a merged
\* message of MultilineMaxLines lines
C32_Witness ==
    /\ pc = "close"
    /\ mu = "free"
    /\ ~merger.hasData
    /\ sending = NoMsg
    /\ Len(sent) >= 1
    /\ sent[Len(sent)].by = "timer"
    /\ Len(sent[Len(sent)].idx) = MultilineMaxLines

----------------------------------------------------------------------------
(* The pending-group table, checked under SpecPartial *)

GroupIDs == {"g", "h"}

\* positions of the fragments of the id that arrived after the last fragment
\* of the id flagged last, or since the start
PendingOf(id) == {j \in FragsOf(id) : \A b \in LastsOf(id) : b < j}

\* the positions in S, in ascending order
RECURSIVE InOrder(_)
InOrder(S) == IF S = {} THEN <<>> ELSE <<MinPos(S)>> \o InOrder(S \ {MinPos(S)})

\* the part that Add appends for the fragment at position j
PartOf(j) == [ordinal |-> OrdinalAt(j), data |-> arrived[j].Line]

\* C33: the table has a group for an id exactly when a fragment of the id
\* has arrived since the last fragment of the id flagged last; the parts of
\* the group are those fragments and no others, each once, so a fragment is
\* buffered in the group of its id only and a group does not outlive the Add
\* call that received its last fragment
C33_GroupsArePending ==
    /\ DOMAIN groups \subseteq GroupIDs
    /\ \A id \in GroupIDs :
          /\ id \in DOMAIN groups <=> PendingOf(id) # {}
          /\ id \in DOMAIN groups =>
                groups[id].parts =
                    [k \in 1..Cardinality(PendingOf(id)) |->
                         PartOf(InOrder(PendingOf(id))[k])]

\* a group was completed and removed, a later fragment reused its id and is
\* alone in a new group, while a fragment of the other id is pending too
C33_Witness ==
    /\ LastsOf("g") # {}
    /\ "g" \in DOMAIN groups
    /\ Len(groups["g"].parts) = 1
    /\ "h" \in DOMAIN groups
    /\ Len(arrived) = MaxAdds

----------------------------------------------------------------------------
(* The registry lock: the handlers of SpecSupervisor with Driver.mu shown *)

\* handleStartLogging, d.mu.Lock(): the options are parsed and the FIFO is
\* open by now
BeginLock(p) ==
    /\ pc = "init"
    /\ dmu = Unlocked
    /\ Len(tasks) < MaxStarts
    /\ dmu' = [kind |-> "start", path |-> p]
    /\ UNCHANGED <<consumers, tasks, stopping>>
    /\ UNCHANGED onePipeline

\* handleStartLogging: d.consumers[req.File] = lc, d.mu.Unlock(), go consumeLog
BeginStore ==
    /\ pc = "init"
    /\ dmu.kind = "start"
    /\ tasks' = Append(tasks, [path |-> dmu.path, state |-> "running",
                               replaced |-> consumers[dmu.path]])
    /\ consumers' = [consumers EXCEPT ![dmu.path] = Len(tasks) + 1]
    /\ dmu' = Unlocked
    /\ UNCHANGED stopping
    /\ UNCHANGED onePipeline

\* handleStopLogging, d.mu.Lock()
EndLock(p) ==
    /\ pc = "init"
    /\ dmu = Unlocked
    /\ dmu' = [kind |-> "stop", path |-> p]
    /\ UNCHANGED <<consumers, tasks, stopping>>
    /\ UNCHANGED onePipeline

\* faulty variant: the lock is released by a deferred Unlock, when the call
\* returns
EndDeleteDeferredUnlock ==
    /\ pc = "init"
    /\ dmu.kind = "stop"
    /\ consumers' = [consumers EXCEPT ![dmu.path] = 0]
    /\ stopping' = stopping \cup ({consumers[dmu.path]} \ {0})
    /\ dmu' = IF consumers[dmu.path] = 0 THEN Unlocked
              ELSE [kind |-> "wait", path |-> dmu.path]
    /\ UNCHANGED tasks
    /\ UNCHANGED onePipeline

\* handleStopLogging: the lookup, the delete and d.mu.Unlock(); a call that
\* found the consumer goes on to cancel it and to wait for it
EndDelete ==
    /\ pc = "init"
    /\ dmu.kind = "stop"
    /\ consumers' = [consumers EXCEPT ![dmu.path] = 0]
    /\ stopping' = stopping \cup ({consumers[dmu.path]} \ {0})
    /\ dmu' = Unlocked
    /\ UNCHANGED tasks
    /\ UNCHANGED onePipeline

RegistryNext ==
    \/ \E p \in Paths : BeginLock(p)
    \/ BeginStore
    \/ \E p \in Paths : EndLock(p)
    \/ EndDelete
    \/ \E i \in 1..MaxStarts : StopCancels(i)
    \/ \E i \in 1..MaxStarts : StopReturns(i)
    \/ \E i \in 1..MaxStarts : TaskEnds(i)

SpecRegistry == Init /\ [][RegistryNext]_vars

\* the consumers whose EndStream call has cancelled them and waits for the
\* task to drain
Draining == {i \in stopping : tasks[i].state = "cancelled"}

\* C34: Driver.mu is held only around the access to the map: whoever holds
\* it releases it in its next step, whatever the tasks are doing, so a call
\* for another path gets the lock while a cancelled pipeline is draining
C34_LockOnlyAroundMap ==
    /\ dmu # Unlocked => ENABLED (BeginStore \/ EndDelete)
    /\ dmu = Unlocked =>
          \A p \in Paths : /\ ENABLED EndLock(p)
                           /\ Len(tasks) < MaxStarts => ENABLED BeginLock(p)

\* while the pipeline of one path is draining, a BeginStream for the other
\* path holds the lock
C34_Witness ==
    \E i \in Draining : dmu.kind = "start" /\ dmu.path # tasks[i].path

----------------------------------------------------------------------------
(* The synchronous pipeline, checked under Spec *)

\* C35, the lock clause as stated: every journal send runs while the merger
\* lock is held
C35_SendUnderLock == sending # NoMsg => mu # "free"

\* the lock clause as the code has it: a send made by flushLocked runs under
\* the lock of its caller; with multiline disabled AddLine calls output
\* without the lock, on a merger that never buffers and never arms a timer
C35_SendUnderLockIfMerging ==
    sending # NoMsg =>
        IF sending.by = "direct"
        THEN /\ mu = "free" /\ pc = "send"
             /\ ~merger.hasData /\ merger.timer = "nil" /\ pendingCb = 0
        ELSE IF sending.by = "timer"
        THEN mu = "timer"
        ELSE mu = "task" /\ pc \in {"send", "flushsend"}

\* no frame is decoded between the call of AddLine and its return; while a
\* send is in progress no other send starts and AddLine takes no line; a send
\* started by AddLine or Flush keeps the task from decoding
C35_SyncStep ==
    /\ pc \in {"addline", "send", "flushsend"} => nread' = nread /\ arrived' = arrived
    /\ sending # NoMsg =>
          /\ sending' = sending \/ sending' = NoMsg
          /\ fed' = fed
          /\ pc = "addline" => pc' = "addline"
          /\ pc = "flush" => pc' = "flush"

\* C35 as stated
C35_Original == [](C35_SendUnderLock) /\ [][C35_SyncStep]_vars

\* C35: the task decodes no frame until AddLine for the previous line has
\* returned; at most one journal send of a pipeline is in progress; with
\* multiline enabled the send runs under the merger lock, so a send started
\* by the timer callback holds up the task at its next AddLine or Flush, and
\* with multiline disabled the send is made by AddLine itself without the lock
C35_SynchronousSends == [](C35_SendUnderLockIfMerging) /\ [][C35_SyncStep]_vars

\* the timer callback is inside the journal send and the task, which has
\* decoded the next line, waits in AddLine for the lock
C35_Witness ==
    /\ sending # NoMsg
    /\ sending.by = "timer"
    /\ pc = "addline"
    /\ mu = "timer"

\* with multiline disabled AddLine is inside the journal send without the lock
C35_WitnessDirect ==
    /\ sending # NoMsg
    /\ sending.by = "direct"
    /\ mu = "free"

----------------------------------------------------------------------------
(* EndStream returns: the pipeline under fair scheduling *)

\* the task's read, on a stream of complete lines written to stdout
ReadsLine == TaskRead /\ ~LastOf(arrived').Partial /\ LastOf(arrived').Source = "stdout"

LiveStopNext ==
    \/ BeginStream
    \/ \E s \in Stoppers : StopLookup(s)
    \/ \E s \in Stoppers : StopCancel(s)
    \/ \E s \in Stoppers : StopWait(s)
    \/ CancelWatcher
    \/ ReadsLine
    \/ TaskReadEOF
    \/ TaskReadError
    \/ TaskReadClosed
    \/ TaskAddLine
    \/ TaskFlush
    \/ TaskClose
    \/ TimerFire
    \/ TimerCallback
    \/ SendReturn

\* The pipeline of LiveStopNext with the scheduling the Go runtime gives: a handler that can go on
\* does, the watcher and the task are goroutines that run when they can, a
\* task waiting for the merger lock gets it once it stays free, and every
\* journal send returns.  Nothing makes the producer write or close, and no
\* timer has to expire.
LiveStopSpec ==
    /\ Init
    /\ [][LiveStopNext]_vars
    /\ \A s \in Stoppers : WF_vars(StopCancel(s)) /\ WF_vars(StopWait(s))
    /\ WF_vars(CancelWatcher)
    /\ WF_vars(TaskReadClosed)
    /\ WF_vars(TaskAddLine)
    /\ WF_vars(TaskFlush)
    /\ WF_vars(TaskClose)
    /\ WF_vars(SendReturn)

\* C36: every EndStream call that has started eventually returns, whether it
\* found the pipeline reading, inside AddLine, or already ended
C36_EndStreamReturns ==
    \A s \in Stoppers : (spc[s] # "idle") ~> (spc[s] = "returned")

\* EndStream returned for a pipeline that it cancelled while no record was
\* left to read: the watcher closed the stream and the task's read failed
C36_Witness ==
    \E s \in Stoppers :
        /\ spc[s] = "returned" /\ sfound[s]
        /\ nread = MaxRecords
        /\ reports = <<>>
        /\ Len(sent) >= 1
        /\ sent[Len(sent)].by = "flush"

----------------------------------------------------------------------------
(* Two EndStream calls for one path *)

\* the pipeline of LiveStopNext under any scheduling
SpecStop == Init /\ [][LiveStopNext]_vars

\* the pipeline has terminated and its multiline buffer has been flushed
Drained ==
    /\ done
    /\ pc = "done"
    /\ ~merger.hasData
    /\ sending = NoMsg
    /\ IdxOf(sent) = Iota(Len(fed))

\* both calls were made for the path while or after it was registered: one
\* of them found the entry
PathWasRegistered == \E t \in Stoppers : sfound[t]

\* C37 as stated: of two EndStream calls for a registered path, neither has
\* answered before the pipeline has terminated and flushed
C37_Original ==
    \A s \in Stoppers : (PathWasRegistered /\ spc[s] = "returned") => Drained

\* C37: of the two calls one finds the entry, and that one answers only
\* after the pipeline has terminated and flushed; the other finds the entry
\* gone and can answer while the first is still cancelling or waiting
C37_OnlyFinderWaits ==
    \A s \in Stoppers :
        (PathWasRegistered /\ spc[s] = "returned") =>
            \/ sfound[s] /\ Drained
            \/ /\ ~sfound[s]
               /\ \E t \in Stoppers \ {s} :
                     /\ sfound[t]
                     /\ spc[t] \in {"cancel", "wait", "returned"}
                     /\ spc[t] = "returned" => Drained

\* the second call has answered while the first waits for a pipeline that
\* has not seen the cancellation yet and holds a line in its buffer
C37_Witness ==
    /\ sfound["stopA"]
    /\ spc["stopA"] = "wait"
    /\ spc["stopB"] = "returned"
    /\ ~done
    /\ pc = "read"
    /\ merger.hasData

----------------------------------------------------------------------------
(* Fragments left over when the task ends, checked under Spec *)

\* the task has left its read loop
LoopEnded == pc \in {"flush", "flushsend", "close", "done"}

\* positions in arrived of the records that Add returned as they were
CompleteAt == {j \in 1..Len(arrived) : ~IsFragment(arrived[j])}

\* positions in arrived of the fragments that are in a pending group
LeftOver == {j \in 1..Len(arrived) : IsFragment(arrived[j])
                                      /\ j \in PendingOf(arrived[j].PartialLogMetadata.ID)}

\* the lines given to AddLine are the complete records and the completed
\* groups, one line each; once the loop has ended every message sent or in
\* flight is made of those lines and the rest of them is in the merger
C38_OnlyCompletedLines ==
    /\ pc \notin {"addline"} =>
          Len(fed) = Cardinality(CompleteAt) + Len(produced)
    /\ LoopEnded =>
          /\ Len(IdxOf(Emitted)) + Len(bufIdx) = Len(fed)
          /\ pc \in {"close", "done"} => IdxOf(sent) = Iota(Len(fed))

\* after the loop nothing is given to the merger and the table of pending
\* groups is left as it is
C38_TeardownStep ==
    LoopEnded => /\ fed' = fed
                 /\ groups' = groups
                 /\ arrived' = arrived
                 /\ produced' = produced

\* C38: when the task ends, the fragments of groups that never got their
\* last fragment are dropped with the table: they are not given to the
\* merger and not sent; the final Flush emits the merger's buffer only
C38_LeftOverDiscarded == [](C38_OnlyCompletedLines) /\ [][C38_TeardownStep]_vars

\* the task has ended with a fragment left in a pending group, after the
\* final Flush emitted the line the merger held
C38_Witness ==
    /\ pc = "done"
    /\ LeftOver # {}
    /\ DOMAIN groups # {}
    /\ Len(sent) >= 1
    /\ sent[Len(sent)].by = "flush"

----------------------------------------------------------------------------
(* The container metadata fields, checked under SpecWriter *)

MetadataNames ==
    {NameContainerID, NameContainerIDFull, NameContainerName, NameImageName,
     NameContainerTag, NameSyslogIdentifier}

\* the metadata fields as computed from the container's id, name, image
\* name and tag alone
MetadataOf(c, info) ==
    buildBaseVars([c EXCEPT !.Labels = <<>>, !.LabelsRegex = NilRegex,
                            !.Env = <<>>, !.EnvRegex = NilRegex], info)

\* the keys of source that the options select and that sanitize to f
SelectedAs(f, source, keys, re) ==
    {k \in DOMAIN source :
        /\ ~(Len(keys) = 0 /\ re = NilRegex)
        /\ (\E i \in 1..Len(keys) : keys[i] = k) \/ (re # NilRegex /\ Match(re, k))
        /\ sanitizeFieldName(k) = f}

\* C39 as stated: the six metadata fields of the writer's fields and of
\* every record have the values computed from the container's id, name,
\* image name and tag
C39_Original ==
    probe.fn \in {"newJournalWriter", "Write"} =>
        \A f \in MetadataNames :
            /\ probe.w.baseVars[f] = MetadataOf(probe.c, probe.info)[f]
            /\ probe.fn = "Write" => probe.rec.vars[f] = MetadataOf(probe.c, probe.info)[f]

\* C39: a metadata field keeps its value unless a selected label or env key
\* has it as its sanitized name; then the field has the value of that env
\* variable, or of that label when no such env variable is selected
C39_ReplacedBySelectedKey ==
    probe.fn = "Write" =>
        \A f \in MetadataNames :
            LET labels == probe.info.ContainerLabels
                env == EnvMap(probe.info.ContainerEnv)
                byLabel == SelectedAs(f, labels, probe.c.Labels, probe.c.LabelsRegex)
                byEnv == SelectedAs(f, env, probe.c.Env, probe.c.EnvRegex)
            IN /\ probe.rec.vars[f] = probe.w.baseVars[f]
               /\ probe.rec.vars[f] \in
                      IF byEnv # {} THEN {env[k] : k \in byEnv}
                      ELSE IF byLabel # {} THEN {labels[k] : k \in byLabel}
                      ELSE {MetadataOf(probe.c, probe.info)[f]}

\* a record of a container named app whose CONTAINER_NAME is the value of
\* the label container_name
C39_Witness ==
    /\ probe.fn = "Write"
    /\ LabelContainerName \in DOMAIN probe.info.ContainerLabels
    /\ probe.rec.vars[NameContainerName] = <<"v">>
    /\ MetadataOf(probe.c, probe.info)[NameContainerName] = <<"a", "p", "p">>

\* a record whose IMAGE_NAME is the value of the env variable IMAGE_NAME
C39_WitnessEnv ==
    /\ probe.fn = "Write"
    /\ probe.rec.vars[NameImageName] = <<"e">>
    /\ probe.rec.vars[NameContainerName] = <<"a", "p", "p">>

====
